---- MODULE Spec2Model ----
(***************************************************************************)
(* Model of the in-image text replacement engine of                        *)
(* japanese-ocr-translator (src/app/image_replacer.py, with the settings   *)
(* of src/config/settings.py).                                             *)
(*                                                                         *)
(* Numbers.  Normalised coordinates are Python floats; they are modelled   *)
(* as exact fractions [n, d] (d > 0), and int(f * k) as truncation of the  *)
(* exact product.  IEEE rounding of a product is not modelled.             *)
(*                                                                         *)
(* Rasters.  A PIL image is an object on a heap; its pixels are given by   *)
(* the list of paint operations applied to its base content, the latest    *)
(* operation covering a pixel deciding its colour (PixelAt).               *)
(***************************************************************************)
EXTENDS Integers, Sequences, FiniteSets, TLC

VARIABLES
    \* ---- ImageReplacer.replace_text ----
    heap,            \* object id -> raster (the PIL images that exist)
    image,           \* the caller's image object (argument `image`)
    image0,          \* the caller's raster as it was when replace_text was called
    extractions,     \* argument `extractions`
    faults,          \* per extraction: which library call fails while it is processed
    img,             \* local `img` (object id; 0 before the copy)
    idx,             \* loop variable `i` of enumerate(extractions, 1)
    pc,              \* position in replace_text
    success_count,
    fail_count,
    text_bbox_px,    \* local `text_bbox_px`
    render_bbox_px,  \* local `render_bbox_px`
    ret,             \* value returned by replace_text
    events,          \* what was done, in order, for which extraction
    \* ---- ImageReplacer._normalize_to_pixels called on its own ----
    n_box, n_dim, n_pad, n_pad_px, n_out, n_pc,
    \* ---- ImageReplacer._wrap_text and _fit_text called on their own ----
    f_text,          \* argument `text`
    f_max_width,     \* argument `max_width`
    f_max_height,    \* argument `max_height`
    f_fault,         \* how the font library behaves during the call
    f_size,          \* size of the font handed to _wrap_text
    f_lines,         \* what _wrap_text returned
    f_out,           \* what _fit_text returned (or raised)
    f_wider,         \* an earlier call of _fit_text with a wider box: <<max_width, result>>
    f_accepted,      \* the font sizes the acceptance test of _fit_text passes for this call
    f_pc,
    \* ---- Translator.translate_batch ----
    b_japanese_texts,  \* argument `japanese_texts`
    b_attempt,         \* loop variable `attempt`
    b_calls,           \* calls of chat.completions.create so far
    b_log,             \* what each attempt met, in order
    b_ret,             \* value returned by translate_batch
    b_pc,
    \* ---- OCRClient.extract_japanese ----
    o_attempt,         \* loop variable `attempt`
    o_calls,           \* calls of chat.completions.create so far
    o_log,             \* what each attempt met, in order
    o_ret,             \* value returned by extract_japanese
    o_pc,
    \* ---- process_pdf and process_pdf_accurate ----
    p_accurate,        \* TRUE: process_pdf_accurate, FALSE: process_pdf
    p_image_replacer,  \* is an image_replacer supplied
    p_images,          \* what pdf_to_images returned (or the exception it raised)
    p_i,               \* loop variable `i`
    p_pages_results,   \* local `pages_results`
    p_modified_images, \* local `modified_images`
    p_japanese_page_count,
    p_ret,             \* the value returned (or the exception that escaped)
    p_pc,
    \* ---- legacy Translator.translate (src/src/translator.py) ----
    l_text,            \* argument `japanese_text`, a sequence of characters
    l_calls,           \* calls of chat.completions.create so far
    l_ret,             \* value returned by translate
    l_pc,
    \* ---- ImageReplacer._expand_bbox ----
    e_bbox,          \* argument `bbox`
    e_img,           \* arguments `img_width`, `img_height`
    e_pct,           \* argument `pct`
    e_min_pad,       \* argument `min_pad`
    e_out,           \* the rectangle returned
    e_pc,
    \* ---- ImageReplacer._render_text ----
    r_text,          \* argument `text`
    r_bbox,          \* argument `bbox`
    r_styling,       \* argument `styling`
    r_fault,         \* the library call that fails during the call
    r_image,         \* the raster `draw` paints on, as it was before the call
    r_out,           \* what the call returned, the raster and its locals
    r_pc,
    \* ---- ImageReplacer._erase_text_simple ----
    er_bbox,         \* argument `bbox`
    er_fault,        \* "erase" when draw.rectangle raises
    er_before,       \* the raster `draw` paints on, as it was before the first call
    er_once,         \* the raster after the first call
    er_image,        \* the raster `draw` paints on
    er_pc,
    \* ---- ImageReplacer._detect_bubble_region ----
    d_img,           \* argument `img`
    d_text_bbox,     \* argument `text_bbox`
    d_fault,         \* "floodfill" when ImageDraw.floodfill raises
    d_crop_box,      \* local `crop_box` (line 283)
    d_seed,          \* locals `seed_x`, `seed_y` when the flood fill starts
    d_out,           \* the value returned
    d_pc

vars == <<heap, image, image0, extractions, faults, img, idx, pc, success_count,
          fail_count, text_bbox_px, render_bbox_px, ret, events,
          n_box, n_dim, n_pad, n_pad_px, n_out, n_pc,
          f_text, f_max_width, f_max_height, f_fault, f_size, f_lines, f_out,
          f_wider, f_accepted, f_pc,
          b_japanese_texts, b_attempt, b_calls, b_log, b_ret, b_pc,
          o_attempt, o_calls, o_log, o_ret, o_pc,
          p_accurate, p_image_replacer, p_images, p_i, p_pages_results, p_modified_images, p_japanese_page_count, p_ret, p_pc,
          l_text, l_calls, l_ret, l_pc,
          e_bbox, e_img, e_pct, e_min_pad, e_out, e_pc,
          r_text, r_bbox, r_styling, r_fault, r_image, r_out, r_pc,
          er_bbox, er_fault, er_before, er_once, er_image, er_pc,
          d_img, d_text_bbox, d_fault, d_crop_box, d_seed, d_out, d_pc>>

replaceVars == <<heap, image, image0, extractions, faults, img, idx, pc,
                 success_count, fail_count, text_bbox_px, render_bbox_px, ret, events>>

normVars == <<n_box, n_dim, n_pad, n_pad_px, n_out, n_pc>>

fitVars == <<f_text, f_max_width, f_max_height, f_fault, f_size, f_lines, f_out,
             f_wider, f_accepted, f_pc>>

batchVars == <<b_japanese_texts, b_attempt, b_calls, b_log, b_ret, b_pc>>

ocrVars == <<o_attempt, o_calls, o_log, o_ret, o_pc>>

pdfVars == <<p_accurate, p_image_replacer, p_images, p_i, p_pages_results, p_modified_images, p_japanese_page_count, p_ret, p_pc>>

legacyVars == <<l_text, l_calls, l_ret, l_pc>>

expandVars == <<e_bbox, e_img, e_pct, e_min_pad, e_out, e_pc>>

renderVars == <<r_text, r_bbox, r_styling, r_fault, r_image, r_out, r_pc>>

eraseVars == <<er_bbox, er_fault, er_before, er_once, er_image, er_pc>>

detectVars == <<d_img, d_text_bbox, d_fault, d_crop_box, d_seed, d_out, d_pc>>

\* everything but the variables of one operation
exceptReplace == <<normVars, fitVars, batchVars, ocrVars, pdfVars, legacyVars, expandVars, renderVars, eraseVars, detectVars>>

exceptNorm == <<replaceVars, fitVars, batchVars, ocrVars, pdfVars, legacyVars, expandVars, renderVars, eraseVars, detectVars>>

exceptFit == <<replaceVars, normVars, batchVars, ocrVars, pdfVars, legacyVars, expandVars, renderVars, eraseVars, detectVars>>

exceptBatch == <<replaceVars, normVars, fitVars, ocrVars, pdfVars, legacyVars, expandVars, renderVars, eraseVars, detectVars>>

exceptOcr == <<replaceVars, normVars, fitVars, batchVars, pdfVars, legacyVars, expandVars, renderVars, eraseVars, detectVars>>

exceptPdf == <<replaceVars, normVars, fitVars, batchVars, ocrVars, legacyVars, expandVars, renderVars, eraseVars, detectVars>>

exceptLegacy == <<replaceVars, normVars, fitVars, batchVars, ocrVars, pdfVars, expandVars, renderVars, eraseVars, detectVars>>

exceptExpand == <<replaceVars, normVars, fitVars, batchVars, ocrVars, pdfVars, legacyVars, renderVars, eraseVars, detectVars>>

exceptRender == <<replaceVars, normVars, fitVars, batchVars, ocrVars, pdfVars, legacyVars, expandVars, eraseVars, detectVars>>

exceptErase == <<replaceVars, normVars, fitVars, batchVars, ocrVars, pdfVars, legacyVars, expandVars, renderVars, detectVars>>

exceptDetect == <<replaceVars, normVars, fitVars, batchVars, ocrVars, pdfVars, legacyVars, expandVars, renderVars, eraseVars>>

-----------------------------------------------------------------------------
(* Bounds of the model *)

\* longest extraction list handed to replace_text
MaxExtractions == 2

\* _normalize_to_pixels is tried on every image of 1..MaxSmallDim pixels a side
MaxSmallDim == 2

\* and with every explicit pad_px in -1..MaxPadPx
MaxPadPx == 2

\* translate_batch is called with at most MaxTexts texts, and a response
\* holds at most MaxTexts + 1 translations
MaxTexts == 3

\* a PDF has at most MaxPages pages
MaxPages == 2

\* the legacy translate is called with texts of at most MaxTextLen characters
MaxTextLen == 3

\* _expand_bbox is called on images of at most MaxSide pixels a side
MaxSide == 4

\* _expand_bbox is called with a min_pad of at most MaxMinPad
MaxMinPad == 2

-----------------------------------------------------------------------------
(* config/settings.py *)

MAX_RETRIES == 3

BBOX_PADDING == 5

RENDER_BOX_PADDING_PCT == <<35, 100>>

MIN_FONT_SIZE == 8

MAX_FONT_SIZE == 66

TEXT_PADDING == 0

TEXT_INSET == 0

LINE_SPACING == <<11, 10>>

TEXT_ERASE_PADDING == 6

BACKGROUND_FILL_COLOR == <<255, 255, 255>>

BUBBLE_DETECT_THRESHOLD == 200

BUBBLE_PADDING == 4

BUBBLE_MIN_AREA == 800

-----------------------------------------------------------------------------
(* Python values *)

Max(a, b) == IF a >= b THEN a ELSE b

Min(a, b) == IF a <= b THEN a ELSE b

\* a float, as an exact fraction
Num(n, d) == [k |-> "num", n |-> n, d |-> d]

\* a string that float() cannot parse
Str == [k |-> "str", n |-> 0, d |-> 1]

\* None
Null == [k |-> "null", n |-> 0, d |-> 1]

\* the key is not in the dict
Absent == [k |-> "absent", n |-> 0, d |-> 1]

\* dict.get(key, 0)
GetOrZero(v) == IF v.k = "absent" THEN Num(0, 1) ELSE v

\* float(v): a float, or the exception it raises
ToFloat(v) ==
    CASE v.k = "num"  -> v
      [] v.k = "str"  -> [k |-> "ValueError", n |-> 0, d |-> 1]
      [] v.k = "null" -> [k |-> "TypeError", n |-> 0, d |-> 1]

\* int(f * k) for a float f >= 0 and an int k >= 0
IntOfProduct(f, k) == (f.n * k) \div f.d

\* f + g
FAdd(f, g) == Num(f.n * g.d + g.n * f.d, f.d * g.d)

\* lo <= f, lo < f, f <= hi for integers lo, hi
FGe(f, lo) == f.n >= lo * f.d

FGt(f, lo) == f.n > lo * f.d

FLe(f, hi) == f.n <= hi * f.d

\* results of a call: a value, None, or a raised exception
NoneVal == [tag |-> "None"]

Rect(r) == [tag |-> "rect", r |-> r]

Raise(e) == [tag |-> "raise", e |-> e]

\* except (ValueError, TypeError):
NormalizeCatches(e) == e \in {"ValueError", "TypeError"}

-----------------------------------------------------------------------------
(* bounding boxes as the OCR stage delivers them *)

\* a dict with the four keys (any of them possibly absent, null or a string)
Box(x, y, w, h) == [t |-> "dict", x |-> x, y |-> y, width |-> w, height |-> h]

\* {}
EmptyDict == [t |-> "empty", x |-> Absent, y |-> Absent, width |-> Absent, height |-> Absent]

\* a non-empty list where a dict was expected
ListBox == [t |-> "list", x |-> Absent, y |-> Absent, width |-> Absent, height |-> Absent]

\* None / key absent
NullBox == [t |-> "null", x |-> Absent, y |-> Absent, width |-> Absent, height |-> Absent]

\* Python truth value of a box object
Truthy(b) == b.t \in {"dict", "list"}

\* optional pad_px argument
PadNone == [some |-> FALSE, v |-> 0]

PadPx(v) == [some |-> TRUE, v |-> v]

-----------------------------------------------------------------------------
(* ImageReplacer._normalize_to_pixels *)

\* lines 196-197: the range check mutated to also accept width and height 0
RangeValid_accepts_zero(x, y, w, h) ==
    /\ FGe(x, 0) /\ FLe(x, 1)
    /\ FGe(y, 0) /\ FLe(y, 1)
    /\ FGe(w, 0) /\ FLe(w, 1)
    /\ FGe(h, 0) /\ FLe(h, 1)

\* line 196: 0 <= x <= 1 and 0 <= y <= 1 and 0 < w <= 1 and 0 < h <= 1
RangeValid(x, y, w, h) ==
    /\ FGe(x, 0) /\ FLe(x, 1)
    /\ FGe(y, 0) /\ FLe(y, 1)
    /\ FGt(w, 0) /\ FLe(w, 1)
    /\ FGt(h, 0) /\ FLe(h, 1)

\* lines 213-216 mutated: the padded right and bottom edges are not clamped
PixelsOf_unclamped(x, y, w, h, img_width, img_height, pad, pad_px) ==
    LET x1 == IntOfProduct(x, img_width)
        y1 == IntOfProduct(y, img_height)
        x2 == IntOfProduct(FAdd(x, w), img_width)
        y2 == IntOfProduct(FAdd(y, h), img_height)
        pad_val == IF pad_px.some THEN Max(0, pad_px.v) ELSE TEXT_ERASE_PADDING
    IN  IF pad
        THEN <<Max(0, x1 - pad_val), Max(0, y1 - pad_val), x2 + pad_val, y2 + pad_val>>
        ELSE <<x1, y1, x2, y2>>

\* lines 199-218, after the range check
PixelsOf(x, y, w, h, img_width, img_height, pad, pad_px) ==
    LET x1 == IntOfProduct(x, img_width)
        y1 == IntOfProduct(y, img_height)
        x2 == IntOfProduct(FAdd(x, w), img_width)
        y2 == IntOfProduct(FAdd(y, h), img_height)
        pad_val == IF pad_px.some THEN Max(0, pad_px.v) ELSE TEXT_ERASE_PADDING
    IN  IF pad
        THEN <<Max(0, x1 - pad_val), Max(0, y1 - pad_val),
               Min(img_width, x2 + pad_val), Min(img_height, y2 + pad_val)>>
        ELSE <<x1, y1, x2, y2>>

\* the whole function: a rectangle, None, or an exception that escapes it
_normalize_to_pixels(bbox_norm, img_width, img_height, pad, pad_px) ==
    IF bbox_norm.t # "dict" /\ bbox_norm.t # "empty"
    THEN Raise("AttributeError")      \* bbox_norm.get on a list or on None
    ELSE
    LET fx == ToFloat(GetOrZero(bbox_norm.x))
        fy == ToFloat(GetOrZero(bbox_norm.y))
        fw == ToFloat(GetOrZero(bbox_norm.width))
        fh == ToFloat(GetOrZero(bbox_norm.height))
        raised == {f \in {fx, fy, fw, fh} : f.k # "num"}
    IN  IF raised # {}
        THEN LET e == IF fx.k # "num" THEN fx.k
                      ELSE IF fy.k # "num" THEN fy.k
                      ELSE IF fw.k # "num" THEN fw.k
                      ELSE fh.k
             IN  IF NormalizeCatches(e) THEN NoneVal ELSE Raise(e)
        ELSE IF ~RangeValid(fx, fy, fw, fh)
        THEN NoneVal
        ELSE Rect(PixelsOf(fx, fy, fw, fh, img_width, img_height, pad, pad_px))

-----------------------------------------------------------------------------
(* ImageReplacer._expand_bbox *)

\* as _expand_bbox, with the padding applied inwards
_expand_bbox_inwards(bbox, img_width, img_height, pct, min_pad) ==
    LET w == Max(1, bbox[3] - bbox[1])
        h == Max(1, bbox[4] - bbox[2])
        pad_x == Max(min_pad, (w * pct[1]) \div pct[2])
        pad_y == Max(min_pad, (h * pct[1]) \div pct[2])
        nx1 == Max(0, bbox[1] + pad_x)
        ny1 == Max(0, bbox[2] + pad_y)
        nx2 == Min(img_width, bbox[3] - pad_x)
        ny2 == Min(img_height, bbox[4] - pad_y)
    IN  IF nx2 <= nx1 \/ ny2 <= ny1 THEN bbox ELSE <<nx1, ny1, nx2, ny2>>

_expand_bbox(bbox, img_width, img_height, pct, min_pad) ==
    LET x1 == bbox[1]
        y1 == bbox[2]
        x2 == bbox[3]
        y2 == bbox[4]
        w == Max(1, x2 - x1)
        h == Max(1, y2 - y1)
        pad_x == Max(min_pad, (w * pct[1]) \div pct[2])
        pad_y == Max(min_pad, (h * pct[1]) \div pct[2])
        nx1 == Max(0, x1 - pad_x)
        ny1 == Max(0, y1 - pad_y)
        nx2 == Min(img_width, x2 + pad_x)
        ny2 == Min(img_height, y2 + pad_y)
    IN  IF nx2 <= nx1 \/ ny2 <= ny1 THEN bbox ELSE <<nx1, ny1, nx2, ny2>>

-----------------------------------------------------------------------------
(* Rasters (PIL.Image objects) *)

\* a fresh page raster of the given size: every pixel has its original content
NewRaster(size) == [size |-> size, ops |-> <<>>]

\* Image.copy(): a new object with the same pixels
CopyOf(raster) == raster

\* ImageDraw.rectangle([x1, y1, x2, y2], fill): both corners are included
FillOp(r, color) == [kind |-> "fill", r |-> r, color |-> color]

\* ImageDraw.text((x, y), line, fill=(0, 0, 0)): the ink lies within the line's box
TextOp(x, y, w, h) == [kind |-> "text", r |-> <<x, y, x + w, y + h>>, color |-> <<0, 0, 0>>]

Covers(op, x, y) ==
    IF op.kind = "fill"
    THEN op.r[1] <= x /\ x <= op.r[3] /\ op.r[2] <= y /\ y <= op.r[4]
    ELSE op.r[1] <= x /\ x < op.r[3] /\ op.r[2] <= y /\ y < op.r[4]

\* the colour of pixel (x, y): the latest paint covering it, else the original
PixelAt(raster, x, y) ==
    LET S == {k \in 1..Len(raster.ops) : Covers(raster.ops[k], x, y)}
    IN  IF S = {}
        THEN <<"original", x, y>>
        ELSE raster.ops[CHOOSE k \in S : \A j \in S : j <= k].color

\* draw a paint operation on a raster
Paint(raster, op) == [raster EXCEPT !.ops = Append(@, op)]

-----------------------------------------------------------------------------
(* Fonts and glyph metrics (PIL.ImageFont, ImageDraw.textbbox) *)

\* which library call fails while an extraction is processed
FaultKinds == {"none", "erase", "measure", "measure_draw", "draw", "font"}

\* ImageReplacer._load_font: a font of the size asked for, None when not even
\* the built-in font loads
_load_font(size, fault) ==
    IF fault = "font"
    THEN [none |-> TRUE, size |-> 0, hinted |-> FALSE]
    ELSE [none |-> FALSE, size |-> Max(MIN_FONT_SIZE, size), hinted |-> fault = "hinted"]

\* a hinted font snaps its glyphs to the pixel grid: at these sizes they come
\* out as wide as those of a font HintWiden pixels larger
HintedSizes == {s \in MIN_FONT_SIZE..MAX_FONT_SIZE : s % 8 = 5}

HintWiden == 4

\* width of a line of n characters: half an em per character; the built-in
\* font (font=None) is 6 pixels per character
TextWidth(n, font) ==
    IF font.none THEN 6 * n
    ELSE IF font.hinted /\ font.size \in HintedSizes
    THEN (n * (font.size + HintWiden)) \div 2
    ELSE (n * font.size) \div 2

\* ascent + descent of a font
FontMetrics(font) == font.size + font.size \div 4

\* ImageReplacer._get_line_height
_get_line_height(font) ==
    IF font.none
    THEN 12
    ELSE (FontMetrics(font) * LINE_SPACING[1]) \div LINE_SPACING[2]

-----------------------------------------------------------------------------
(* Texts: a string is its length and the lengths of its words (str.split) *)

Text(chars, words) == [k |-> "str", chars |-> chars, words |-> words]

NullText == [k |-> "null", chars |-> 0, words |-> <<>>]

AbsentText == [k |-> "absent", chars |-> 0, words |-> <<>>]

\* the check `not english` mutated into `english is None`
TextTruthy_accepts_empty(t) == t.k = "str"

\* Python truth value of extraction.get("english_translation", "")
TextTruthy(t) == t.k = "str" /\ t.chars > 0

RECURSIVE SumSeq(_)
SumSeq(q) == IF q = <<>> THEN 0 ELSE Head(q) + SumSeq(Tail(q))

\* " ".join(words): a line, with its length in characters
Join(words) ==
    [words |-> words,
     chars |-> IF words = <<>> THEN 0 ELSE SumSeq(words) + Len(words) - 1]

\* lines 500-505 mutated: only the new word is measured, not the joined line
WrapWidth_of_last_word(line, font, max_width, fault) ==
    LET word == line.words[Len(line.words)]
    IN  IF fault = "measure"
        THEN word * (max_width \div 20)
        ELSE TextWidth(word, font)

\* the measured width of a line, or the heuristic when textbbox raises
WrapWidth(line, font, max_width, fault) ==
    IF fault = "measure"
    THEN line.chars * (max_width \div 20)
    ELSE TextWidth(line.chars, font)

\* lines 511-513 mutated: a full line is dropped instead of appended to lines
RECURSIVE WrapLoop_drops_full_line(_, _, _, _, _, _, _)
WrapLoop_drops_full_line(words, k, lines, current_line, font, max_width, fault) ==
    IF k > Len(words)
    THEN IF current_line # <<>> THEN Append(lines, Join(current_line)) ELSE lines
    ELSE LET word == words[k]
             test_line == Join(Append(current_line, word))
             width == WrapWidth(test_line, font, max_width, fault)
         IN  IF width <= max_width
             THEN WrapLoop_drops_full_line(words, k + 1, lines,
                                           Append(current_line, word),
                                           font, max_width, fault)
             ELSE WrapLoop_drops_full_line(words, k + 1, lines, <<word>>,
                                           font, max_width, fault)

\* ImageReplacer._wrap_text, lines 498-529: the loop over the words from k on
RECURSIVE WrapLoop(_, _, _, _, _, _, _)
WrapLoop(words, k, lines, current_line, font, max_width, fault) ==
    IF k > Len(words)
    THEN IF current_line # <<>> THEN Append(lines, Join(current_line)) ELSE lines
    ELSE LET word == words[k]
             test_line == Join(Append(current_line, word))
             width == WrapWidth(test_line, font, max_width, fault)
         IN  IF width <= max_width
             THEN WrapLoop(words, k + 1, lines, Append(current_line, word),
                           font, max_width, fault)
             ELSE WrapLoop(words, k + 1,
                           IF current_line # <<>>
                           THEN Append(lines, Join(current_line)) ELSE lines,
                           <<word>>, font, max_width, fault)

\* ImageReplacer._wrap_text
_wrap_text(text, font, max_width, fault) ==
    LET lines == WrapLoop(text.words, 1, <<>>, <<>>, font, max_width, fault)
    IN  IF lines = <<>>
        THEN <<[words |-> <<>>, chars |-> text.chars]>>
        ELSE lines

\* line 605 mutated: the comparison is reversed
FitsWidth_reversed(lines, font, max_width) ==
    \A j \in 1..Len(lines) : TextWidth(lines[j].chars, font) >= max_width

\* lines 602-607 mutated: the width of the lines is not looked at
FitsWidth_ignores_width(lines, font, max_width) == TRUE

\* lines 602-607: every line's measured width is within max_width
FitsWidth(lines, font, max_width) ==
    \A j \in 1..Len(lines) : TextWidth(lines[j].chars, font) <= max_width

\* what _fit_text returns
FitResult(size, font, lines, line_height, total_height) ==
    [tag |-> "fit", size |-> size, font |-> font, lines |-> lines,
     line_height |-> line_height, total_height |-> total_height]

\* ImageReplacer._fit_text, lines 594-624: the binary search
RECURSIVE FitLoop(_, _, _, _, _, _, _)
FitLoop(low, high, best, text, max_width, max_height, fault) ==
    IF low > high
    THEN best
    ELSE LET mid == (low + high) \div 2
             font == _load_font(mid, fault)
             lines == _wrap_text(text, font, max_width, fault)
             line_height == _get_line_height(font)
             total_height == Len(lines) * line_height
             fits_height == total_height <= (max_height * 12) \div 10
         IN  IF fault = "measure"
             THEN Raise("OSError")       \* line 604: textbbox is not guarded here
             ELSE IF FitsWidth(lines, font, max_width) /\ fits_height
             THEN FitLoop(mid + 1, high,
                          FitResult(mid, font, lines, line_height, total_height),
                          text, max_width, max_height, fault)
             ELSE FitLoop(low, mid - 1, best, text, max_width, max_height, fault)

\* lines 588-592 mutated: no result is prepared before the search
_fit_text_without_fallback(text, max_width, max_height, fault) ==
    FitLoop(MIN_FONT_SIZE, MAX_FONT_SIZE, NoneVal, text, max_width, max_height, fault)

\* ImageReplacer._fit_text
_fit_text(text, max_width, max_height, fault) ==
    LET best_font == _load_font(MIN_FONT_SIZE, fault)
        best_lines == _wrap_text(text, best_font, max_width, fault)
        best_line_height == _get_line_height(best_font)
    IN  FitLoop(MIN_FONT_SIZE, MAX_FONT_SIZE,
                FitResult(MIN_FONT_SIZE, best_font, best_lines, best_line_height,
                          Len(best_lines) * best_line_height),
                text, max_width, max_height, fault)

-----------------------------------------------------------------------------
(* ImageReplacer._erase_text_simple *)

\* lines 256-257 mutated: the rectangle is drawn without looking at its size
_erase_text_simple_unguarded(raster, bbox, fault) ==
    IF fault = "erase"
    THEN [raised |-> TRUE, raster |-> raster]
    ELSE [raised |-> FALSE, raster |-> Paint(raster, FillOp(bbox, BACKGROUND_FILL_COLOR))]

\* line 260 mutated: the fill inverts what is at the rectangle's corner
_erase_text_simple_inverting(raster, bbox, fault) ==
    IF bbox[3] <= bbox[1] \/ bbox[4] <= bbox[2]
    THEN [raised |-> FALSE, raster |-> raster]
    ELSE IF fault = "erase"
    THEN [raised |-> TRUE, raster |-> raster]
    ELSE [raised |-> FALSE,
          raster |-> Paint(raster,
                           FillOp(bbox,
                                  IF \E k \in 1..Len(raster.ops) :
                                        /\ Covers(raster.ops[k], bbox[1], bbox[2])
                                        /\ raster.ops[k].color = BACKGROUND_FILL_COLOR
                                  THEN <<0, 0, 0>> ELSE BACKGROUND_FILL_COLOR))]

\* the raster after the call, or the exception draw.rectangle raised
_erase_text_simple(raster, bbox, fault) ==
    IF bbox[3] <= bbox[1] \/ bbox[4] <= bbox[2]
    THEN [raised |-> FALSE, raster |-> raster]
    ELSE IF fault = "erase"
    THEN [raised |-> TRUE, raster |-> raster]
    ELSE [raised |-> FALSE, raster |-> Paint(raster, FillOp(bbox, BACKGROUND_FILL_COLOR))]

-----------------------------------------------------------------------------
(* ImageReplacer._render_text *)

\* line 451 mutated: the line is centred but not held back at the right edge
RECURSIVE DrawLoop_without_right_clamp(_, _, _, _, _, _, _, _, _)
DrawLoop_without_right_clamp(raster, lines, k, current_y, font, line_height, x1_in, x2_in, fault) ==
    IF k > Len(lines)
    THEN [raised |-> FALSE, raster |-> raster, current_y |-> current_y]
    ELSE LET line == lines[k]
             inner_width == Max(1, x2_in - x1_in)
             line_width == IF fault = "measure_draw"
                           THEN inner_width
                           ELSE TextWidth(line.chars, font)
             x_pos == Max(x1_in, x1_in + (inner_width - line_width) \div 2)
             advance == IF k < Len(lines)
                        THEN (line_height * LINE_SPACING[1]) \div LINE_SPACING[2]
                        ELSE line_height
         IN  IF line.words = <<>>
             THEN DrawLoop_without_right_clamp(raster, lines, k + 1,
                                               current_y + line_height, font,
                                               line_height, x1_in, x2_in, fault)
             ELSE IF fault = "draw"
             THEN [raised |-> TRUE, raster |-> raster, current_y |-> current_y]
             ELSE DrawLoop_without_right_clamp(
                      Paint(raster, TextOp(x_pos, current_y, line_width, line_height)),
                      lines, k + 1, current_y + advance, font,
                      line_height, x1_in, x2_in, fault)

\* lines 437-462: draw the lines from the k-th on; raised when draw.text raised
RECURSIVE DrawLoop(_, _, _, _, _, _, _, _, _)
DrawLoop(raster, lines, k, current_y, font, line_height, x1_in, x2_in, fault) ==
    IF k > Len(lines)
    THEN [raised |-> FALSE, raster |-> raster, current_y |-> current_y]
    ELSE LET line == lines[k]
             inner_width == Max(1, x2_in - x1_in)
             line_width == IF fault = "measure_draw"
                           THEN inner_width
                           ELSE TextWidth(line.chars, font)
             centred == Max(x1_in, x1_in + (inner_width - line_width) \div 2)
             x_pos == Min(centred, x2_in - line_width)
             advance == IF k < Len(lines)
                        THEN (line_height * LINE_SPACING[1]) \div LINE_SPACING[2]
                        ELSE line_height
         IN  IF line.words = <<>>
             THEN DrawLoop(raster, lines, k + 1, current_y + line_height, font,
                           line_height, x1_in, x2_in, fault)
             ELSE IF fault = "draw"
             THEN [raised |-> TRUE, raster |-> raster, current_y |-> current_y]
             ELSE DrawLoop(Paint(raster, TextOp(x_pos, current_y, line_width, line_height)),
                           lines, k + 1, current_y + advance, font,
                           line_height, x1_in, x2_in, fault)

\* a return before the layout was computed
RenderResult(res, raster) == [res |-> res, raster |-> raster, locals |-> NoneVal]

\* a return from the draw loop, with the values of the local variables
RenderDrawn(res, raster, x1_in, x2_in, y1_in, inner_width, inner_height, fit, y_start, current_y) ==
    [res |-> res, raster |-> raster,
     locals |-> [tag |-> "locals", x1_in |-> x1_in, x2_in |-> x2_in, y1_in |-> y1_in,
                 inner_width |-> inner_width, inner_height |-> inner_height,
                 wrapped_lines |-> fit.lines, line_height |-> fit.line_height,
                 total_text_height |-> fit.total_height,
                 y_start |-> y_start, current_y |-> current_y]]

\* the whole function: "True", "False" or "raise", and the raster afterwards
_render_text(raster, text, bbox, styling, fault) ==
    LET x1 == bbox[1] + TEXT_PADDING
        y1 == bbox[2] + TEXT_PADDING
        x2 == bbox[3] - TEXT_PADDING
        y2 == bbox[4] - TEXT_PADDING
        box_width == x2 - x1
        box_height == y2 - y1
        inset == Max(0, TEXT_INSET)
        x1_in == Min(x2, x1 + inset)
        y1_in == Min(y2, y1 + inset)
        x2_in == Max(x1_in, x2 - inset)
        y2_in == Max(y1_in, y2 - inset)
        inner_width == Max(1, x2_in - x1_in)
        inner_height == Max(1, y2_in - y1_in)
        fit == _fit_text(text, inner_width, inner_height, fault)
        y_start == y1_in + Max(0, (inner_height - fit.total_height) \div 2)
        drawn == DrawLoop(raster, fit.lines, 1, y_start, fit.font, fit.line_height,
                          x1_in, x2_in, fault)
    IN  IF ~TextTruthy(text)
        THEN RenderResult("False", raster)
        ELSE IF box_width <= 0 \/ box_height <= 0
        THEN RenderResult("False", raster)
        ELSE IF styling # "dict"
        THEN RenderResult("raise", raster)        \* styling.get on None
        ELSE IF fit.tag = "raise"
        THEN RenderResult("raise", raster)
        ELSE IF fit.font.none
        THEN RenderResult("False", raster)
        ELSE RenderDrawn(IF drawn.raised THEN "False" ELSE "True", drawn.raster,
                         x1_in, x2_in, y1_in, inner_width, inner_height, fit,
                         y_start, drawn.current_y)

-----------------------------------------------------------------------------
(* Extractions as the OCR / translation stage delivers them *)

\* isdict FALSE: the list element is not a dict (extraction.get raises)
Extraction(english, bbox, bubble, speech, styling) ==
    [isdict |-> TRUE, english_translation |-> english, bounding_box |-> bbox,
     bubble_box |-> bubble, speech_bubble_box |-> speech, styling |-> styling]

NotADict ==
    [isdict |-> FALSE, english_translation |-> AbsentText, bounding_box |-> NullBox,
     bubble_box |-> NullBox, speech_bubble_box |-> NullBox, styling |-> "absent"]

\* "Hello there"
HelloThere == Text(11, <<5, 5>>)

\* a single word that is wider than the box at every font size
LongWord == Text(60, <<60>>)

\* " "
Blank == Text(1, <<>>)

TextBox == Box(Num(1, 10), Num(1, 10), Num(1, 5), Num(1, 10))

BigBubble == Box(Num(1, 20), Num(1, 20), Num(2, 5), Num(3, 10))

SmallBubble == Box(Num(3, 20), Num(3, 25), Num(1, 20), Num(3, 100))

EdgeBox == Box(Num(9, 10), Num(9, 10), Num(1, 1), Num(1, 1))

\* the extractions tried, each with the library fault met while it is processed
Cases ==
    {<<Extraction(HelloThere, TextBox, NullBox, NullBox, "dict"), f>> : f \in FaultKinds}
    \cup
    {<<e, "none">> : e \in
        {Extraction(HelloThere, TextBox, BigBubble, NullBox, "dict"),
         Extraction(HelloThere, TextBox, SmallBubble, NullBox, "absent"),
         Extraction(HelloThere, TextBox, NullBox, BigBubble, "dict"),
         Extraction(HelloThere, TextBox, ListBox, NullBox, "dict"),
         Extraction(HelloThere, TextBox, Box(Num(-1, 10), Num(0, 1), Num(1, 2), Num(1, 2)),
                    NullBox, "dict"),
         Extraction(HelloThere, EdgeBox, NullBox, NullBox, "dict"),
         Extraction(LongWord, TextBox, NullBox, NullBox, "dict"),
         Extraction(Blank, TextBox, NullBox, NullBox, "dict"),
         Extraction(HelloThere, TextBox, NullBox, NullBox, "null"),
         Extraction(Text(0, <<>>), TextBox, NullBox, NullBox, "dict"),
         Extraction(AbsentText, TextBox, NullBox, NullBox, "dict"),
         Extraction(NullText, TextBox, BigBubble, NullBox, "dict"),
         Extraction(HelloThere, NullBox, NullBox, NullBox, "dict"),
         Extraction(HelloThere, EmptyDict, NullBox, NullBox, "dict"),
         Extraction(HelloThere, ListBox, NullBox, NullBox, "dict"),
         Extraction(HelloThere, Box(Num(-1, 10), Num(1, 10), Num(1, 5), Num(1, 10)),
                    NullBox, NullBox, "dict"),
         Extraction(HelloThere, Box(Num(1, 10), Str, Num(1, 5), Num(1, 10)),
                    NullBox, NullBox, "dict"),
         NotADict}}

ImageSizes == {<<800, 600>>}

\* every list of at most n cases
RECURSIVE CaseLists(_)
CaseLists(n) ==
    IF n = 0
    THEN {<<>>}
    ELSE LET shorter == CaseLists(n - 1)
         IN  shorter \cup {Append(q, c) : q \in {l \in shorter : Len(l) = n - 1}, c \in Cases}

-----------------------------------------------------------------------------
(* ImageReplacer.replace_text *)

\* line 148 mutated into the narrower handler of line 220
ReplaceTextCatches_narrow(e) == e \in {"ValueError", "TypeError"}

\* line 148: except Exception -- every exception raised in the loop body
ReplaceTextCatches(e) == TRUE

\* extraction.get("bubble_box") or extraction.get("speech_bubble_box")
BubbleNorm(ex) == IF Truthy(ex.bubble_box) THEN ex.bubble_box ELSE ex.speech_bubble_box

Area(r) == (r[3] - r[1]) * (r[4] - r[2])

\* lines 112-131: the rectangle chosen for rendering, or the exception raised
SelectRenderBox(text_bbox, bubble_norm, img_width, img_height) ==
    IF Truthy(bubble_norm)
    THEN LET bubble_bbox_px == _normalize_to_pixels(bubble_norm, img_width, img_height,
                                                    TRUE, PadPx(BBOX_PADDING))
         IN  IF bubble_bbox_px.tag = "raise"
             THEN bubble_bbox_px
             ELSE IF bubble_bbox_px.tag = "None"
             THEN Rect(text_bbox)
             ELSE LET expanded_bubble == _expand_bbox(bubble_bbox_px.r, img_width, img_height,
                                                      RENDER_BOX_PADDING_PCT, BBOX_PADDING)
                  IN  IF Area(expanded_bubble) >= (Area(text_bbox) * 11) \div 10
                      THEN Rect(expanded_bubble)
                      ELSE Rect(text_bbox)
    ELSE Rect(_expand_bbox(text_bbox, img_width, img_height,
                           RENDER_BOX_PADDING_PCT, BBOX_PADDING))

\* the rectangle replace_text hands to _erase_text_simple (line 133)
EraseBox == text_bbox_px.r

\* the rectangle replace_text hands to _render_text (line 137)
RenderBox == text_bbox_px.r

\* the state of each operation while it is not in use
IdleReplace ==
    /\ heap = <<>> /\ image = 0 /\ image0 = <<>> /\ extractions = <<>> /\ faults = <<>>
    /\ img = 0 /\ idx = 0 /\ pc = "idle" /\ success_count = 0 /\ fail_count = 0
    /\ text_bbox_px = NoneVal /\ render_bbox_px = NoneVal /\ ret = NoneVal
    /\ events = <<>>

IdleNorm ==
    /\ n_box = EmptyDict /\ n_dim = <<1, 1>> /\ n_pad = FALSE /\ n_pad_px = PadNone
    /\ n_out = NoneVal /\ n_pc = "idle"

IdleFit ==
    /\ f_text = NullText /\ f_max_width = 0 /\ f_max_height = 0 /\ f_fault = "none"
    /\ f_size = 0 /\ f_lines = <<>> /\ f_out = NoneVal /\ f_wider = <<>>
    /\ f_accepted = {} /\ f_pc = "idle"

IdleBatch ==
    /\ b_japanese_texts = <<>> /\ b_attempt = 0 /\ b_calls = 0 /\ b_log = <<>>
    /\ b_ret = NoneVal /\ b_pc = "idle"

IdleOcr ==
    /\ o_attempt = 0 /\ o_calls = 0 /\ o_log = <<>> /\ o_ret = NoneVal /\ o_pc = "idle"

IdlePdf ==
    /\ p_accurate = FALSE /\ p_image_replacer = FALSE /\ p_images = NoneVal /\ p_i = 0
    /\ p_pages_results = <<>> /\ p_modified_images = <<>> /\ p_japanese_page_count = 0
    /\ p_ret = NoneVal /\ p_pc = "idle"

IdleLegacy ==
    /\ l_text = <<>> /\ l_calls = 0 /\ l_ret = NoneVal /\ l_pc = "idle"

IdleExpand ==
    /\ e_bbox = <<>> /\ e_img = <<>> /\ e_pct = <<>> /\ e_min_pad = 0
    /\ e_out = <<>> /\ e_pc = "idle"

IdleRender ==
    /\ r_text = NullText /\ r_bbox = <<>> /\ r_styling = "" /\ r_fault = ""
    /\ r_image = <<>> /\ r_out = NoneVal /\ r_pc = "idle"

IdleErase ==
    /\ er_bbox = <<>> /\ er_fault = "" /\ er_before = <<>> /\ er_once = <<>>
    /\ er_image = <<>> /\ er_pc = "idle"

IdleDetect ==
    /\ d_img = <<>> /\ d_text_bbox = <<>> /\ d_fault = "" /\ d_crop_box = <<>>
    /\ d_seed = NoneVal /\ d_out = NoneVal /\ d_pc = "idle"

\* every operation but g is not in use
AllIdleBut(g) ==
    /\ g # "Replace" => IdleReplace
    /\ g # "Norm" => IdleNorm
    /\ g # "Fit" => IdleFit
    /\ g # "Batch" => IdleBatch
    /\ g # "Ocr" => IdleOcr
    /\ g # "Pdf" => IdlePdf
    /\ g # "Legacy" => IdleLegacy
    /\ g # "Expand" => IdleExpand
    /\ g # "Render" => IdleRender
    /\ g # "Erase" => IdleErase
    /\ g # "Detect" => IdleDetect

\* enumerate(extractions, 1): the index after i
NextIndex(i) == i + 1

Event(i, op, r) == [i |-> i, op |-> op, r |-> r]

InitReplace ==
    /\ AllIdleBut("Replace")
    /\ \E size \in ImageSizes : heap = <<NewRaster(size)>>
    /\ image = 1
    /\ image0 = heap[1]
    /\ \E l \in CaseLists(MaxExtractions) :
          /\ extractions = [k \in 1..Len(l) |-> l[k][1]]
          /\ faults = [k \in 1..Len(l) |-> l[k][2]]
    /\ img = 0
    /\ idx = 0
    /\ pc = "call"
    /\ success_count = 0
    /\ fail_count = 0
    /\ text_bbox_px = NoneVal
    /\ render_bbox_px = NoneVal
    /\ ret = NoneVal
    /\ events = <<>>

\* lines 99 and 110 mutated: `break` where the code has `continue`
SkipExtraction_breaks ==
    /\ fail_count' = fail_count + 1
    /\ events' = Append(events, Event(idx, "failed", <<>>))
    /\ idx' = Len(extractions) + 1
    /\ pc' = "loop"
    /\ ret' = ret

\* lines 95-99 and 106-110: count the extraction as failed and `continue`
SkipExtraction ==
    /\ fail_count' = fail_count + 1
    /\ events' = Append(events, Event(idx, "failed", <<>>))
    /\ idx' = NextIndex(idx)
    /\ pc' = "loop"
    /\ ret' = ret

\* lines 148-152 mutated: the handler logs but forgets fail_count += 1
Except_uncounted(e) ==
    /\ fail_count' = fail_count
    /\ events' = Append(Append(events, Event(idx, "exception", <<>>)),
                        Event(idx, "failed", <<>>))
    /\ idx' = NextIndex(idx)
    /\ pc' = "loop"
    /\ ret' = ret

\* lines 148-152: the handler of the loop body, reached with exception e
Except(e) ==
    IF ReplaceTextCatches(e)
    THEN /\ fail_count' = fail_count + 1
         /\ events' = Append(Append(events, Event(idx, "exception", <<>>)),
                             Event(idx, "failed", <<>>))
         /\ idx' = NextIndex(idx)
         /\ pc' = "loop"
         /\ ret' = ret
    ELSE /\ ret' = Raise(e)
         /\ events' = events
         /\ pc' = "raised"
         /\ UNCHANGED <<fail_count, idx>>

\* lines 75 and 78 mutated: no copy, the caller's object itself is used
ImageCopy_alias(h, src) == [heap |-> h, ref |-> src]

\* image.copy(): the heap with the new object, and the reference to it
ImageCopy(h, src) == [heap |-> Append(h, CopyOf(h[src])), ref |-> Len(h) + 1]

\* lines 73-83: the empty-list return, else the working copy and the counters
Call ==
    /\ pc = "call"
    /\ heap' = ImageCopy(heap, image).heap
    /\ IF Len(extractions) = 0
       THEN /\ ret' = [tag |-> "ret", img |-> ImageCopy(heap, image).ref,
                       success |-> 0, failed |-> 0]
            /\ pc' = "done"
            /\ UNCHANGED <<img, idx>>
       ELSE /\ img' = ImageCopy(heap, image).ref
            /\ idx' = 1
            /\ pc' = "loop"
            /\ ret' = ret
    /\ success_count' = 0
    /\ fail_count' = 0
    /\ UNCHANGED <<image, image0, extractions, faults, text_bbox_px, render_bbox_px, events>>
    /\ UNCHANGED exceptReplace

\* lines 86-131 for extraction idx: field lookup, validation, geometry, selection
Resolve ==
    /\ pc = "loop"
    /\ idx <= Len(extractions)
    /\ LET ex == extractions[idx]
           size == heap[img].size
           text_box == _normalize_to_pixels(ex.bounding_box, size[1], size[2],
                                            TRUE, PadPx(TEXT_ERASE_PADDING))
           render_box == SelectRenderBox(text_box.r, BubbleNorm(ex), size[1], size[2])
       IN  IF ~ex.isdict
           THEN Except("AttributeError") /\ UNCHANGED <<text_bbox_px, render_bbox_px>>
           ELSE IF ~Truthy(ex.bounding_box) \/ ~TextTruthy(ex.english_translation)
           THEN SkipExtraction /\ UNCHANGED <<text_bbox_px, render_bbox_px>>
           ELSE IF text_box.tag = "raise"
           THEN Except(text_box.e) /\ UNCHANGED <<text_bbox_px, render_bbox_px>>
           ELSE IF text_box.tag = "None"
           THEN SkipExtraction /\ text_bbox_px' = text_box /\ UNCHANGED render_bbox_px
           ELSE IF render_box.tag = "raise"
           THEN Except(render_box.e) /\ text_bbox_px' = text_box /\ UNCHANGED render_bbox_px
           ELSE /\ text_bbox_px' = text_box
                /\ render_bbox_px' = render_box
                /\ pc' = "erase"
                /\ UNCHANGED <<fail_count, idx, ret, events>>
    /\ UNCHANGED <<heap, image, image0, extractions, faults, img, success_count>>
    /\ UNCHANGED exceptReplace

\* line 133 mutated: the erase is done on a fresh copy of the caller's image,
\* losing what earlier extractions painted
Erase_on_fresh_copy ==
    /\ pc = "erase"
    /\ LET erased == _erase_text_simple(CopyOf(heap[image]), EraseBox, faults[idx])
       IN  IF erased.raised
           THEN Except("OSError") /\ heap' = heap
           ELSE /\ heap' = [heap EXCEPT ![img] = erased.raster]
                /\ events' = Append(events, Event(idx, "erase", EraseBox))
                /\ pc' = "render"
                /\ UNCHANGED <<fail_count, idx, ret>>
    /\ UNCHANGED <<image, image0, extractions, faults, img, success_count,
                   text_bbox_px, render_bbox_px>>
    /\ UNCHANGED exceptReplace

\* line 133: erase the original text
Erase ==
    /\ pc = "erase"
    /\ LET erased == _erase_text_simple(heap[img], EraseBox, faults[idx])
       IN  IF erased.raised
           THEN Except("OSError") /\ heap' = heap
           ELSE /\ heap' = [heap EXCEPT ![img] = erased.raster]
                /\ events' = Append(events, Event(idx, "erase", EraseBox))
                /\ pc' = "render"
                /\ UNCHANGED <<fail_count, idx, ret>>
    /\ UNCHANGED <<image, image0, extractions, faults, img, success_count,
                   text_bbox_px, render_bbox_px>>
    /\ UNCHANGED exceptReplace

\* lines 136-146: render the translation and count the outcome
Render ==
    /\ pc = "render"
    /\ LET ex == extractions[idx]
           styling == IF ex.styling = "absent" THEN "dict" ELSE ex.styling
           rendered == _render_text(heap[img], ex.english_translation, RenderBox,
                                    styling, faults[idx])
       IN  /\ heap' = [heap EXCEPT ![img] = rendered.raster]
           /\ IF rendered.res = "raise"
              THEN /\ Except(IF styling # "dict" THEN "AttributeError" ELSE "OSError")
                   /\ UNCHANGED success_count
              ELSE /\ events' = Append(Append(events, Event(idx, "render", RenderBox)),
                                       Event(idx, IF rendered.res = "True"
                                                  THEN "success" ELSE "failed", <<>>))
                   /\ IF rendered.res = "True"
                      THEN success_count' = success_count + 1 /\ UNCHANGED fail_count
                      ELSE fail_count' = fail_count + 1 /\ UNCHANGED success_count
                   /\ idx' = NextIndex(idx)
                   /\ pc' = "loop"
                   /\ ret' = ret
    /\ UNCHANGED <<image, image0, extractions, faults, img, text_bbox_px, render_bbox_px>>
    /\ UNCHANGED exceptReplace

\* lines 154-158: the loop is over
Return ==
    /\ pc = "loop"
    /\ idx > Len(extractions)
    /\ ret' = [tag |-> "ret", img |-> img, success |-> success_count, failed |-> fail_count]
    /\ pc' = "done"
    /\ UNCHANGED <<heap, image, image0, extractions, faults, img, idx, success_count,
                   fail_count, text_bbox_px, render_bbox_px, events>>
    /\ UNCHANGED exceptReplace

Next == Call \/ Resolve \/ Erase \/ Render \/ Return

Spec == InitReplace /\ [][Next]_vars

-----------------------------------------------------------------------------
(* Claims about replace_text (checked under Spec) *)

\* positions in events of the outcome recorded for extraction i
OutcomesOf(i) ==
    {k \in 1..Len(events) : events[k].i = i /\ events[k].op \in {"success", "failed"}}

HasEvent(i, op) == \E k \in 1..Len(events) : events[k].i = i /\ events[k].op = op

CountEvents(op) == Cardinality({k \in 1..Len(events) : events[k].op = op})

Returned == pc = "done" /\ ret.tag = "ret"

C1_State ==
    /\ pc # "raised"
    /\ ret.tag # "raise"
    /\ (Returned /\ Len(extractions) > 0) =>
          \A i \in 1..Len(extractions) :
              /\ Cardinality(OutcomesOf(i)) = 1
              /\ HasEvent(i, "exception") => HasEvent(i, "failed")

C1_Step ==
    (Len(events') > Len(events) /\ events'[Len(events) + 1].op = "exception")
        => /\ fail_count' = fail_count + 1
           /\ success_count' = success_count
           /\ idx' = idx + 1
           /\ pc' = "loop"

\* C1: an exception raised while one extraction is processed is caught inside
\* the loop, adds exactly one to the failed count, every later extraction is
\* still processed, and replace_text never propagates it.
C1_ExceptionsCaught == [](C1_State) /\ [][C1_Step]_vars

\* the first extraction raised, the second one was still replaced
C1_Witness ==
    /\ Returned /\ Len(extractions) = 2
    /\ HasEvent(1, "exception")
    /\ HasEvent(2, "success")
    /\ ret.failed = 1 /\ ret.success = 1

LacksBox(ex) == ex.bounding_box.t \in {"null", "empty"}

LacksTranslation(ex) ==
    ex.english_translation.k \in {"null", "absent"} \/ ex.english_translation.chars = 0

C2_Step ==
    (/\ pc = "loop" /\ idx <= Len(extractions)
     /\ extractions[idx].isdict
     /\ LacksBox(extractions[idx]) \/ LacksTranslation(extractions[idx]))
        => /\ fail_count' = fail_count + 1
           /\ success_count' = success_count
           /\ idx' = idx + 1
           /\ pc' = "loop"
           /\ heap' = heap

\* C2: an extraction lacking a bounding box or with an empty or missing
\* translation is counted as failed (failed +1, successful unchanged) and the
\* loop goes on with the next extraction.
C2_InvalidExtractionSkipped == [][C2_Step]_vars

\* a rejected first extraction was followed by a replaced second one
C2_Witness ==
    /\ Returned /\ Len(extractions) = 2
    /\ extractions[1].isdict
    /\ LacksBox(extractions[1]) \/ LacksTranslation(extractions[1])
    /\ ~HasEvent(1, "exception") /\ HasEvent(1, "failed")
    /\ HasEvent(2, "success")

\* the only extraction of the page has translated text ""
OnlyEmptyTranslation ==
    /\ Len(extractions) = 1
    /\ extractions[1].isdict
    /\ extractions[1].english_translation = Text(0, <<>>)

\* the pixels of the extraction's (padded) text rectangle
LocationOf(ex, size) ==
    LET b == _normalize_to_pixels(ex.bounding_box, size[1], size[2], TRUE,
                                  PadPx(TEXT_ERASE_PADDING))
    IN  IF b.tag = "rect"
        THEN (b.r[1]..Min(b.r[3], size[1] - 1)) \X (b.r[2]..Min(b.r[4], size[2] - 1))
        ELSE {}

\* C3: for a page whose only extraction has translated_text "", replace_text
\* returns successful 0 and failed 1 and the returned raster is pixel-identical
\* to the input at the extraction's location.
C3_EmptyTranslationLeavesRaster ==
    (Returned /\ OnlyEmptyTranslation) =>
        /\ ret.success = 0
        /\ ret.failed = 1
        /\ \A p \in LocationOf(extractions[1], image0.size) :
              PixelAt(heap[ret.img], p[1], p[2]) = PixelAt(image0, p[1], p[2])

C3_Witness ==
    /\ Returned /\ OnlyEmptyTranslation
    /\ LocationOf(extractions[1], image0.size) # {}
    /\ ret.failed = 1

\* C4: for a non-empty list the returned counts add up to len(extractions),
\* each extraction being counted exactly once on every path; for an empty
\* list replace_text returns (copy, 0, 0).
C4_EveryExtractionCountedOnce ==
    /\ (Returned /\ Len(extractions) > 0) =>
          /\ ret.success + ret.failed = Len(extractions)
          /\ ret.success = CountEvents("success")
          /\ ret.failed = CountEvents("failed")
          /\ \A i \in 1..Len(extractions) : Cardinality(OutcomesOf(i)) = 1
    /\ (Returned /\ Len(extractions) = 0) =>
          /\ ret.success = 0 /\ ret.failed = 0
          /\ ret.img # image
          /\ heap[ret.img] = image0
    /\ pc = "loop" => success_count + fail_count = idx - 1

\* a full-length list in which one extraction was replaced and one raised
C4_Witness ==
    /\ Returned /\ Len(extractions) = MaxExtractions
    /\ ret.success >= 1
    /\ \E i \in 1..Len(extractions) : HasEvent(i, "exception")
    /\ ret.success + ret.failed = Len(extractions)

IsPrefix(a, b) == Len(a) <= Len(b) /\ \A k \in 1..Len(a) : a[k] = b[k]

C5_State ==
    /\ \A j, k \in 1..Len(events) : j < k => events[j].i <= events[k].i
    /\ \A k \in 1..Len(events) :
          events[k].op = "render" =>
              /\ k > 1
              /\ events[k - 1].op = "erase"
              /\ events[k - 1].i = events[k].i
    /\ \A j, k \in 1..Len(events) :
          (events[j].op = "erase" /\ events[k].op = "erase" /\ events[j].i = events[k].i)
              => j = k
    /\ (img # 0 /\ Len(heap[img].ops) > 0) => heap[img].ops[1].kind = "fill"

C5_Step ==
    /\ idx' >= idx
    /\ img # 0 => (img' = img /\ IsPrefix(heap[img].ops, heap'[img].ops))

\* C5: extractions are processed strictly in list order, each one's erase
\* comes before its draw, and the erase and draw of a later extraction work
\* on the raster as the earlier ones left it.
C5_InOrderOnSharedRaster == [](C5_State) /\ [][C5_Step]_vars

\* two extractions were replaced one after the other on the same raster
C5_Witness ==
    /\ Returned /\ Len(extractions) = 2 /\ ret.success = 2
    /\ Len(heap[ret.img].ops) >= 4
    /\ heap[ret.img].ops[1].kind = "fill"
    /\ heap[ret.img].ops[2].kind = "text"
    /\ \E k \in 3..Len(heap[ret.img].ops) : heap[ret.img].ops[k].kind = "fill"

\* C6: replace_text never mutates the image object passed in: every erase and
\* draw goes to a copy, so the caller's raster is pixel-identical afterwards.
C6_OriginalNeverMutated ==
    /\ pc # "idle" => heap[image] = image0
    /\ img # 0 => img # image
    /\ Returned => ret.img # image

\* the returned raster was painted on while the caller's raster was not
C6_Witness ==
    /\ Returned /\ ret.success >= 1
    /\ heap[ret.img] # image0
    /\ heap[image] = image0

\* the rectangle the selection policy of the claim names for an extraction
PolicyHolds(ex, size, used) ==
    LET text == _normalize_to_pixels(ex.bounding_box, size[1], size[2], TRUE,
                                     PadPx(TEXT_ERASE_PADDING)).r
        bubble == BubbleNorm(ex)
        bubble_px == _normalize_to_pixels(bubble, size[1], size[2], TRUE,
                                          PadPx(BBOX_PADDING))
        expanded_bubble == _expand_bbox(bubble_px.r, size[1], size[2],
                                        RENDER_BOX_PADDING_PCT, BBOX_PADDING)
        expanded_text == _expand_bbox(text, size[1], size[2],
                                      RENDER_BOX_PADDING_PCT, BBOX_PADDING)
    IN  /\ (Truthy(bubble) /\ bubble_px.tag = "rect"
              /\ 10 * Area(expanded_bubble) >= 11 * Area(text))
            => used = expanded_bubble
        /\ ~Truthy(bubble) => used = expanded_text

\* C7: when a bubble hint is present and the expanded bubble rectangle's area
\* is at least 110% of the text rectangle's, the expanded bubble rectangle is
\* used for both erase and render; with no bubble hint the text rectangle
\* expanded by the percentage margin is used for both.
C7_RectangleSelection ==
    \A k \in 1..Len(events) :
        events[k].op \in {"erase", "render"}
            => PolicyHolds(extractions[events[k].i], image0.size, events[k].r)

\* C16: when textbbox raises for a candidate line or word during the fit,
\* wrap or render of an extraction, a heuristic width is substituted and the
\* extraction is processed on; a measurement failure alone never makes the
\* extraction count as failed.
C16_MeasurementFailureNotFatal ==
    Returned =>
        \A i \in 1..Len(extractions) :
            faults[i] \in {"measure", "measure_draw"} => ~HasEvent(i, "failed")

\* the paint operations on the raster returned
ReturnedOps == heap[ret.img].ops

\* C29 as stated: an extraction counted as failed leaves the working raster
\* unchanged: nothing was erased for it, and a page whose only extraction
\* failed is returned as it came, also when the failure arose in _render_text.
C29_Original ==
    Returned =>
        /\ \A i \in 1..Len(extractions) : HasEvent(i, "failed") => ~HasEvent(i, "erase")
        /\ (Len(extractions) = 1 /\ ret.failed = 1) => ReturnedOps = <<>>

\* C29 amended: an extraction counted as failed before the erase step
\* leaves the working raster unchanged; an extraction that fails in
\* _render_text was erased before and its text rectangle stays filled.
C29_FailedInRenderStaysErased ==
    Returned =>
        /\ Cardinality({k \in 1..Len(ReturnedOps) : ReturnedOps[k].kind = "fill"})
              = CountEvents("erase")
        /\ \A i \in 1..Len(extractions) :
              HasEvent(i, "failed") =>
                  /\ (~HasEvent(i, "erase") /\ Len(extractions) = 1) => ReturnedOps = <<>>
                  /\ \A k \in 1..Len(events) :
                        (events[k].i = i /\ events[k].op = "erase")
                            => \E j \in 1..Len(ReturnedOps) :
                                  ReturnedOps[j] = FillOp(events[k].r, BACKGROUND_FILL_COLOR)

\* the only extraction failed for want of a font, after its rectangle was erased
C29_Witness ==
    /\ Returned /\ Len(extractions) = 1 /\ faults[1] = "font"
    /\ ret.failed = 1 /\ HasEvent(1, "erase")
    /\ Len(ReturnedOps) = 1 /\ ReturnedOps[1].kind = "fill"

-----------------------------------------------------------------------------
(* _normalize_to_pixels called on its own, on every box, image size and     *)
(* padding of the pools below                                              *)

XPool == {Num(-1, 10), Num(0, 1), Num(1, 1000), Num(1, 2), Num(9, 10), Num(1, 1),
          Num(11, 10), Str, Null, Absent}

WidthPool == {Num(-1, 10), Num(0, 1), Num(1, 1000), Num(1, 2), Num(1, 1), Num(11, 10),
              Str, Absent}

YPool == {Num(0, 1), Num(1, 1), Num(11, 10), Null}

HeightPool == {Num(0, 1), Num(1, 1000), Num(1, 1), Str}

NormBoxes ==
    {Box(x, y, w, h) : x \in XPool, y \in YPool, w \in WidthPool, h \in HeightPool}
        \cup {EmptyDict}

NormDims == ((1..MaxSmallDim) \X (1..MaxSmallDim)) \cup {<<100, 80>>, <<800, 600>>}

NormPads ==
    {<<FALSE, PadNone>>, <<TRUE, PadNone>>}
        \cup {<<TRUE, PadPx(v)>> : v \in (-1..MaxPadPx) \cup {BBOX_PADDING, 1000}}

InitNorm ==
    /\ AllIdleBut("Norm")
    /\ n_box \in NormBoxes
    /\ n_dim \in NormDims
    /\ \E p \in NormPads : n_pad = p[1] /\ n_pad_px = p[2]
    /\ n_out = NoneVal
    /\ n_pc = "call"

Normalize ==
    /\ n_pc = "call"
    /\ n_out' = _normalize_to_pixels(n_box, n_dim[1], n_dim[2], n_pad, n_pad_px)
    /\ n_pc' = "done"
    /\ UNCHANGED <<n_box, n_dim, n_pad, n_pad_px>>
    /\ UNCHANGED exceptNorm

NextNorm == Normalize

SpecNorm == InitNorm /\ [][NextNorm]_vars

-----------------------------------------------------------------------------
(* Claims about _normalize_to_pixels (checked under SpecNorm) *)

\* the value of a field as the function reads it (an absent key reads as 0)
FieldOf(v) == GetOrZero(v)

NonNumeric(b) ==
    \E v \in {FieldOf(b.x), FieldOf(b.y), FieldOf(b.width), FieldOf(b.height)} :
        v.k # "num"

\* x or y outside [0,1], or width or height outside (0,1]
OutOfRange(b) ==
    LET x == FieldOf(b.x)
        y == FieldOf(b.y)
        w == FieldOf(b.width)
        h == FieldOf(b.height)
    IN  \/ x.n < 0 \/ x.n > x.d
        \/ y.n < 0 \/ y.n > y.d
        \/ w.n <= 0 \/ w.n > w.d
        \/ h.n <= 0 \/ h.n > h.d

IsIntRect(o) ==
    /\ o.tag = "rect"
    /\ Len(o.r) = 4
    /\ \A k \in 1..4 : o.r[k] \in Int

\* C8: _normalize_to_pixels returns None exactly when x or y lies outside
\* [0,1] or width or height lies outside (0,1] or a field is non-numeric; for
\* every other box it returns a 4-tuple of integers.
C8_NoneExactlyWhenOutOfRange ==
    n_pc = "done" =>
        /\ (n_out = NoneVal) <=> (NonNumeric(n_box) \/ OutOfRange(n_box))
        /\ ~(NonNumeric(n_box) \/ OutOfRange(n_box)) => IsIntRect(n_out)

\* a box at the very edge of the accepted range was converted
C8_Witness ==
    /\ n_pc = "done"
    /\ n_box.x = Num(1, 1) /\ n_box.width = Num(1, 1000)
    /\ n_box.y = Num(0, 1) /\ n_box.height = Num(1, 1)
    /\ n_out.tag = "rect"

\* x + width is far beyond 1 (the spec's example: x = 0.9, width = 1.0)
FarBeyondOne(b) ==
    LET x == FieldOf(b.x)
        w == FieldOf(b.width)
    IN  x.k = "num" /\ w.k = "num" /\ 10 * (x.n * w.d + w.n * x.d) >= 19 * x.d * w.d

NegativeX(b) == FieldOf(b.x).k = "num" /\ FieldOf(b.x).n < 0

NonPositiveWidth(b) == FieldOf(b.width).k = "num" /\ FieldOf(b.width).n <= 0

\* C9 as stated: every box with x<0, width<=0 or x+width far greater than 1
\* is rejected (None), never clamped into a pixel rectangle.
C9_Original ==
    n_pc = "done" =>
        ((NegativeX(n_box) \/ NonPositiveWidth(n_box) \/ FarBeyondOne(n_box))
            => n_out = NoneVal)

\* C9 amended: every box with x<0, x>1, width<=0 or width>1 is rejected; a box
\* whose four fields are each in range is accepted even when x+width is far
\* greater than 1, and with padding enabled its right edge is clamped to the
\* image width.
C9_RejectsPerField ==
    n_pc = "done" =>
        /\ (NegativeX(n_box) \/ NonPositiveWidth(n_box)
              \/ (FieldOf(n_box.x).k = "num" /\ FieldOf(n_box.x).n > FieldOf(n_box.x).d)
              \/ (FieldOf(n_box.width).k = "num"
                    /\ FieldOf(n_box.width).n > FieldOf(n_box.width).d))
            => n_out = NoneVal
        /\ (FarBeyondOne(n_box) /\ ~NonNumeric(n_box) /\ ~OutOfRange(n_box))
            => /\ n_out.tag = "rect"
               /\ n_pad => n_out.r[3] = n_dim[1]

\* x = 0.9, width = 1.0 was accepted and clamped
C9_Witness ==
    /\ n_pc = "done"
    /\ n_box.x = Num(9, 10) /\ n_box.width = Num(1, 1)
    /\ n_pad /\ n_out.tag = "rect" /\ n_out.r[3] = n_dim[1]

\* C10: whenever _normalize_to_pixels returns a rectangle, for any image size
\* W,H >= 1 and any padding >= 0 including zero, x2 > x1 and y2 > y1.
C10_NonDegenerate ==
    (n_pc = "done" /\ n_out.tag = "rect" /\ n_pad /\ (n_pad_px.some => n_pad_px.v >= 0))
        => (n_out.r[3] > n_out.r[1] /\ n_out.r[4] > n_out.r[2])

\* C11: for every box accepted by _normalize_to_pixels and every padding
\* value (negative and very large pad_px included), the returned rectangle
\* satisfies 0 <= x1, x2 <= W and 0 <= y1, y2 <= H.
C11_PaddedRectInsideImage ==
    (n_pc = "done" /\ n_out.tag = "rect" /\ n_pad)
        => /\ 0 <= n_out.r[1] /\ n_out.r[1] <= n_dim[1]
           /\ 0 <= n_out.r[3] /\ n_out.r[3] <= n_dim[1]
           /\ 0 <= n_out.r[2] /\ n_out.r[2] <= n_dim[2]
           /\ 0 <= n_out.r[4] /\ n_out.r[4] <= n_dim[2]

\* a box in the far corner was padded by 1000 pixels and the result is the
\* whole image, no more
C11_Witness ==
    /\ n_pc = "done" /\ n_pad /\ n_pad_px.some /\ n_pad_px.v = 1000
    /\ n_box.x = Num(9, 10) /\ n_box.width = Num(1, 1)
    /\ n_dim = <<800, 600>>
    /\ n_out.tag = "rect" /\ n_out.r = <<0, 0, 800, 600>>

-----------------------------------------------------------------------------
(* _wrap_text and _fit_text called on their own, on every text, box and    *)
(* font behaviour of the pools below                                       *)

HiText == Text(2, <<2>>)

StairsText == Text(12, <<1, 2, 3, 3>>)

UnevenText == Text(20, <<7, 2, 9>>)

SentenceText == Text(29, <<9, 4, 14>>)

TailText == Text(15, <<2, 2, 9>>)

FitTexts == {HiText, HelloThere, StairsText, UnevenText, SentenceText, TailText,
             LongWord, Blank}

FitWidths == {10, 19, 20, 40, 41, 66, 100, 150, 240, 400}

FitHeights == {6, 30, 60, 100}

\* the font library works, textbbox raises, no font loads, the font is hinted
FitFaults == {"none", "measure", "font", "hinted"}

WrapSizes == {MIN_FONT_SIZE, 13, 24, 37, MAX_FONT_SIZE}

FontSizes == MIN_FONT_SIZE..MAX_FONT_SIZE

\* lines 596-612, the test applied to one candidate size: every wrapped line
\* measures at most max_width and line_count * line_height is at most
\* max_height * 1.2 (no size passes it when textbbox raises)
Accepts(size, text, max_width, max_height, fault) ==
    LET font == _load_font(size, fault)
        lines == _wrap_text(text, font, max_width, fault)
    IN  /\ fault # "measure"
        /\ \A j \in 1..Len(lines) : TextWidth(lines[j].chars, font) <= max_width
        /\ 10 * Len(lines) * _get_line_height(font) <= 12 * max_height

AcceptedSizes(text, max_width, max_height, fault) ==
    {s \in FontSizes : Accepts(s, text, max_width, max_height, fault)}

InitFit ==
    /\ AllIdleBut("Fit")
    /\ f_text \in FitTexts
    /\ f_max_width \in FitWidths
    /\ f_max_height \in FitHeights
    /\ f_fault \in FitFaults
    /\ f_size = 0
    /\ f_lines = <<>>
    /\ f_out = NoneVal
    /\ f_wider = <<>>
    /\ f_accepted = {}
    /\ f_pc = "call"

\* _wrap_text(text, font, max_width, draw) with a font of some size
WrapCall ==
    /\ f_pc = "call"
    /\ \E size \in WrapSizes :
          /\ f_size' = size
          /\ f_lines' = _wrap_text(f_text, _load_font(size, f_fault), f_max_width, f_fault)
    /\ f_pc' = "wrapped"
    /\ UNCHANGED <<f_text, f_max_width, f_max_height, f_fault, f_out, f_wider, f_accepted>>
    /\ UNCHANGED exceptFit

\* _fit_text(text, max_width, max_height, draw, bold, italic)
FitCall ==
    /\ f_pc = "call"
    /\ f_out' = _fit_text(f_text, f_max_width, f_max_height, f_fault)
    /\ f_accepted' = AcceptedSizes(f_text, f_max_width, f_max_height, f_fault)
    /\ f_pc' = "fitted"
    /\ UNCHANGED <<f_text, f_max_width, f_max_height, f_fault, f_size, f_lines, f_wider>>
    /\ UNCHANGED exceptFit

\* the same text and height fitted again into a box that is no wider
FitNarrower ==
    /\ f_pc = "fitted"
    /\ \E w \in FitWidths :
          /\ w <= f_max_width
          /\ f_wider' = <<f_max_width, f_out>>
          /\ f_max_width' = w
          /\ f_out' = _fit_text(f_text, w, f_max_height, f_fault)
          /\ f_accepted' = AcceptedSizes(f_text, w, f_max_height, f_fault)
    /\ f_pc' = "refitted"
    /\ UNCHANGED <<f_text, f_max_height, f_fault, f_size, f_lines>>
    /\ UNCHANGED exceptFit

NextFit == WrapCall \/ FitCall \/ FitNarrower

SpecFit == InitFit /\ [][NextFit]_vars

-----------------------------------------------------------------------------
(* Claims about _fit_text and _wrap_text (checked under SpecFit) *)

\* _fit_text has returned (it has not raised)
FitReturned == f_pc \in {"fitted", "refitted"} /\ f_out.tag = "fit"

Largest(S) == CHOOSE s \in S : \A t \in S : t <= s

\* once a size is rejected, every larger size is rejected too
PredicateMonotone ==
    \A s \in f_accepted : s > MIN_FONT_SIZE => s - 1 \in f_accepted

C13_NarrowerBoxNoLargerFont ==
    (f_pc = "refitted" /\ f_out.tag = "fit" /\ f_wider[2].tag = "fit")
        => (f_max_width <= f_wider[1] /\ f_out.size <= f_wider[2].size)

\* the same text was fitted into a strictly narrower box and came out strictly
\* smaller, wrapped into more lines
C13_Witness ==
    /\ f_pc = "refitted" /\ f_out.tag = "fit" /\ f_wider[2].tag = "fit"
    /\ f_max_width < f_wider[1]
    /\ f_out.size < f_wider[2].size
    /\ Len(f_out.lines) > Len(f_wider[2].lines)

\* the sizes the binary search of lines 594-622 tries when A is the set of
\* sizes it accepts
RECURSIVE Probed(_, _, _)
Probed(low, high, A) ==
    IF low > high
    THEN {}
    ELSE LET mid == (low + high) \div 2
         IN  {mid} \cup (IF mid \in A THEN Probed(mid + 1, high, A)
                                      ELSE Probed(low, mid - 1, A))

NoProbeAccepted == Probed(MIN_FONT_SIZE, MAX_FONT_SIZE, f_accepted) \cap f_accepted = {}

\* the wrap, line height and total height at MIN_FONT_SIZE
FallbackAtMinSize ==
    LET font == _load_font(MIN_FONT_SIZE, f_fault)
        lines == _wrap_text(f_text, font, f_max_width, f_fault)
    IN  FitResult(MIN_FONT_SIZE, font, lines, _get_line_height(font),
                  Len(lines) * _get_line_height(font))

\* C14: when the binary search of _fit_text accepts none of the sizes it
\* tries, _fit_text still returns a result: size MIN_FONT_SIZE with the wrap,
\* the line height and the total height computed at MIN_FONT_SIZE; it never
\* returns an empty or absent result.
C14_FallbackAtMinSize ==
    f_pc \in {"fitted", "refitted"}
        => /\ f_out # NoneVal
           /\ (f_out.tag = "fit" /\ NoProbeAccepted)
                => (f_out = FallbackAtMinSize /\ f_out.lines # <<>>)

\* a 60-character word in a box 40 wide: every size was rejected and the
\* result is the one-line wrap at MIN_FONT_SIZE
C14_Witness ==
    /\ f_pc = "fitted" /\ f_out.tag = "fit" /\ NoProbeAccepted
    /\ f_text = LongWord /\ f_max_width = 40 /\ f_fault = "none"
    /\ f_out.size = MIN_FONT_SIZE /\ Len(f_out.lines) = 1
    /\ f_out.total_height = _get_line_height(f_out.font)

\* the words of the lines, in line order (each line split on whitespace)
RECURSIVE WordsOf(_)
WordsOf(lines) ==
    IF lines = <<>> THEN <<>> ELSE Head(lines).words \o WordsOf(Tail(lines))

\* C15: for every text and every max_width, the words of the lines
\* _wrap_text returns, taken in line order, are exactly text.split(): no word
\* is dropped, duplicated or reordered, whatever the measured widths are, also
\* when measurement fails and the heuristic width is used.
C15_WrapKeepsEveryWord ==
    f_pc = "wrapped" => WordsOf(f_lines) = f_text.words

\* a text of three unequal words was wrapped into two lines while textbbox
\* raised and the heuristic width was used
C15_Witness ==
    /\ f_pc = "wrapped" /\ f_fault = "measure"
    /\ f_text = SentenceText /\ Len(f_lines) = 2
    /\ WordsOf(f_lines) = <<9, 4, 14>>

\* C30: for every input _fit_text returns, and it returns a size s with
\* MIN_FONT_SIZE <= s <= MAX_FONT_SIZE together with the font, the lines, the
\* line height and the total height computed at s, total_height being
\* len(lines) * line_height.
C30_FitReturnsOneCandidate ==
    f_pc \in {"fitted", "refitted"}
        => /\ f_out.tag = "fit"
           /\ MIN_FONT_SIZE <= f_out.size /\ f_out.size <= MAX_FONT_SIZE
           /\ f_out.font = _load_font(f_out.size, f_fault)
           /\ f_out.lines = _wrap_text(f_text, f_out.font, f_max_width, f_fault)
           /\ f_out.line_height = _get_line_height(f_out.font)
           /\ f_out.total_height = Len(f_out.lines) * f_out.line_height

\* what draw.textbbox, or the heuristic standing in for it, gives for a line of
\* n characters in the font _wrap_text was called with
LineWidth(n) ==
    IF f_fault = "measure"
    THEN n * (f_max_width \div 20)
    ELSE TextWidth(n, _load_font(f_size, f_fault))

\* C22: _wrap_text is greedy and never breaks a word: every returned line
\* of two or more words has a measured width <= max_width (so a line wider
\* than max_width is a single word), a line ends only where the next word would
\* not fit on it, and no returned line is empty when the text has a word.
C22_WrapGreedyWholeWords ==
    (f_pc = "wrapped" /\ f_text.words # <<>>)
        => \A j \in 1..Len(f_lines) :
              /\ f_lines[j].words # <<>> /\ f_lines[j].chars > 0
              /\ Len(f_lines[j].words) >= 2 => LineWidth(f_lines[j].chars) <= f_max_width
              /\ j < Len(f_lines)
                    => LineWidth(f_lines[j].chars + 1 + f_lines[j + 1].words[1]) > f_max_width

\* a text was wrapped into a line of two words that fits and a line of one word
\* that is wider than max_width
C22_Witness ==
    /\ f_pc = "wrapped" /\ Len(f_lines) >= 2
    /\ \E j \in 1..Len(f_lines) :
          Len(f_lines[j].words) = 2 /\ LineWidth(f_lines[j].chars) <= f_max_width
    /\ \E j \in 1..Len(f_lines) :
          Len(f_lines[j].words) = 1 /\ LineWidth(f_lines[j].chars) > f_max_width

-----------------------------------------------------------------------------
(* Translator.translate_batch (src/app/translator.py) *)

\* a translated string; the empty string is EmptyStr
Translation(j) == [s |-> j]

EmptyStr == Translation(0)

\* what the model answered: a JSON array of k strings, a JSON object whose
\* "translations" is such an array, k numbered lines under a heading line and
\* followed by a blank line, or no content at all (message.content is None)
JsonList(k) == [kind |-> "json_list", items |-> [j \in 1..k |-> Translation(j)]]

JsonDict(k) == [kind |-> "json_dict", items |-> [j \in 1..k |-> Translation(j)]]

Line(kind, j) == [line |-> kind, text |-> Translation(j)]

NumberedLines(k) ==
    [kind |-> "lines",
     items |-> <<Line("heading", 0)>> \o [j \in 1..k |-> Line("numbered", j)]
                   \o <<Line("blank", 0)>>]

NoContent == [kind |-> "none", items |-> <<>>]

\* chat.completions.create raised
ApiError == [kind |-> "exception", items |-> <<>>]

MaxItems == MaxTexts + 1

Contents ==
    {JsonList(k) : k \in 0..MaxItems} \cup {JsonDict(k) : k \in 0..MaxItems}
        \cup {NumberedLines(k) : k \in 0..MaxItems} \cup {NoContent}

\* list[:n]
Take(q, n) == SubSeq(q, 1, Min(n, Len(q)))

\* lines 182-222: the translations found in the lines, blank lines and
\* instruction lines skipped
RECURSIVE ParseLines(_)
ParseLines(lines) ==
    IF lines = <<>>
    THEN <<>>
    ELSE IF Head(lines).line \in {"blank", "heading"}
         THEN ParseLines(Tail(lines))
         ELSE <<Head(lines).text>> \o ParseLines(Tail(lines))

\* line 228 mutated: every translation found is returned
_parse_translations_untruncated(content, expected_count) ==
    IF content.kind = "lines" THEN ParseLines(content.items) ELSE content.items

\* Translator._parse_translations
_parse_translations(content, expected_count) ==
    IF content.kind = "json_list"
    THEN Take(content.items, expected_count)                  \* line 171
    ELSE IF content.kind = "json_dict"
    THEN Take(content.items, expected_count)                  \* line 175
    ELSE Take(ParseLines(content.items), expected_count)      \* line 228

\* [""] * n
Blanks(n) == [j \in 1..n |-> EmptyStr]

\* lines 116-117: translations padded with "" up to n
Padded(translations, n) ==
    translations \o Blanks(Max(0, n - Len(translations)))

BatchTexts == {[j \in 1..n |-> j] : n \in 0..MaxTexts}

InitBatch ==
    /\ AllIdleBut("Batch")
    /\ b_japanese_texts \in BatchTexts
    /\ b_attempt = 0
    /\ b_calls = 0
    /\ b_log = <<>>
    /\ b_ret = NoneVal
    /\ b_pc = "call"

\* lines 53-86: nothing to translate, or the first attempt begins
BatchCall ==
    /\ b_pc = "call"
    /\ IF b_japanese_texts = <<>>
       THEN b_ret' = <<>> /\ b_pc' = "done" /\ b_attempt' = 0
       ELSE IF MAX_RETRIES < 1
       THEN /\ b_ret' = Blanks(Len(b_japanese_texts))             \* line 129
            /\ b_pc' = "done" /\ b_attempt' = 0
       ELSE b_ret' = NoneVal /\ b_pc' = "attempt" /\ b_attempt' = 1
    /\ UNCHANGED <<b_japanese_texts, b_calls, b_log>>
    /\ UNCHANGED exceptBatch

\* lines 120-127: the API call, or the reading of its response, raised
AttemptRaises(what) ==
    /\ b_log' = Append(b_log, what)
    /\ IF b_attempt < MAX_RETRIES
       THEN b_attempt' = b_attempt + 1 /\ b_pc' = "attempt" /\ b_ret' = NoneVal
       ELSE /\ b_ret' = Blanks(Len(b_japanese_texts))
            /\ b_pc' = "done" /\ b_attempt' = b_attempt

\* lines 99-118: the response was read
AttemptParses(content) ==
    LET translations == _parse_translations(content, Len(b_japanese_texts))
    IN  /\ b_log' = Append(b_log, content)
        /\ IF Len(translations) = Len(b_japanese_texts)
           THEN b_ret' = translations /\ b_pc' = "done" /\ b_attempt' = b_attempt
           ELSE IF b_attempt < MAX_RETRIES
           THEN b_attempt' = b_attempt + 1 /\ b_pc' = "attempt" /\ b_ret' = NoneVal
           ELSE /\ b_ret' = Padded(translations, Len(b_japanese_texts))
                /\ b_pc' = "done" /\ b_attempt' = b_attempt

\* one pass of the loop of line 86
Attempt ==
    /\ b_pc = "attempt"
    /\ b_calls' = b_calls + 1
    /\ \/ AttemptRaises(ApiError)
       \/ \E content \in Contents :
             IF content.kind = "none"
             THEN AttemptRaises(content)      \* None has no strip(): AttributeError
             ELSE AttemptParses(content)
    /\ UNCHANGED b_japanese_texts
    /\ UNCHANGED exceptBatch

NextBatch == BatchCall \/ Attempt

SpecBatch == InitBatch /\ [][NextBatch]_vars

\* C17: translate_batch returns a list of exactly len(japanese_texts) entries
\* whatever each of its at most MAX_RETRIES attempts meets (the right number
\* of translations, too few, too many, an exception), and returns [] for an
\* empty input without calling the API.
C17_OneTranslationPerText ==
    /\ b_calls <= MAX_RETRIES
    /\ b_pc = "done" =>
          /\ Len(b_ret) = Len(b_japanese_texts)
          /\ b_japanese_texts = <<>> => (b_ret = <<>> /\ b_calls = 0)

\* three texts: the first attempt raised, the second answered one translation
\* and the last one two, which were padded with an empty string
C17_Witness ==
    /\ b_pc = "done" /\ Len(b_japanese_texts) = 3
    /\ b_log = <<ApiError, JsonList(1), NumberedLines(2)>>
    /\ b_calls = MAX_RETRIES
    /\ b_ret = <<Translation(1), Translation(2), EmptyStr>>

-----------------------------------------------------------------------------
(* OCRClient.extract_japanese (src/app/ocr_client.py) *)

\* a value json.loads can return, or a dict extract_japanese builds: its
\* Python type, the keys it has when it is a dict, and the values of the keys
\* "japanese_found", "extractions" (a list of n items, or null) and "error"
JsonValue(py, keys, found, ext, error) ==
    [py |-> py, keys |-> keys, japanese_found |-> found, extractions |-> ext,
     error |-> error]

ListOf(n) == [k |-> "list", n |-> n]

NullValue == [k |-> "null", n |-> 0]

FoundPage(n) == JsonValue("dict", {"japanese_found", "extractions"}, TRUE, ListOf(n), "")

FoundNullExtractions ==
    JsonValue("dict", {"japanese_found", "extractions"}, TRUE, NullValue, "")

NoJapanese == JsonValue("dict", {"japanese_found", "extractions"}, FALSE, ListOf(0), "")

OnlyExtractions == JsonValue("dict", {"extractions"}, FALSE, ListOf(0), "")

EmptyObject == JsonValue("dict", {}, FALSE, ListOf(0), "")

JsonArray == JsonValue("list", {}, FALSE, ListOf(0), "")

JsonString == JsonValue("str", {}, FALSE, ListOf(0), "")

ErrorDict(msg) == JsonValue("dict", {"japanese_found", "error"}, FALSE, ListOf(0), msg)

JsonValues ==
    {FoundPage(n) : n \in 0..MaxExtractions}
        \cup {FoundNullExtractions, NoJapanese, OnlyExtractions, EmptyObject,
              JsonArray, JsonString}

\* message.content of a response: JSON text of a value, the JSON text `null`,
\* text that is not JSON, each bare or inside a ```json fence, or None
Raw(text, value, fenced) == [text |-> text, value |-> value, fenced |-> fenced]

Responses ==
    {Raw("json", v, f) : v \in JsonValues, f \in BOOLEAN}
        \cup {Raw(t, NoJapanese, f) : t \in {"null", "garbage"}, f \in BOOLEAN}
        \cup {Raw("none", NoJapanese, FALSE)}

\* OCRClient._parse: the fence, then the characters j, s, o, n are stripped
\* from both ends (which turns `null` into `ull`), then json.loads
_parse(raw) ==
    IF raw.text = "json" THEN raw.value ELSE Raise("JSONDecodeError")

InitOcr ==
    /\ AllIdleBut("Ocr")
    /\ o_attempt = 0
    /\ o_calls = 0
    /\ o_log = <<>>
    /\ o_ret = NoneVal
    /\ o_pc = "call"

\* lines 115-117: the image is encoded and the first attempt begins
OcrCall ==
    /\ o_pc = "call"
    /\ IF MAX_RETRIES < 1
       THEN /\ o_ret' = ErrorDict("Max retries exhausted")         \* line 163
            /\ o_pc' = "done" /\ o_attempt' = 0
       ELSE o_ret' = NoneVal /\ o_pc' = "attempt" /\ o_attempt' = 1
    /\ UNCHANGED <<o_calls, o_log>>
    /\ UNCHANGED exceptOcr

\* lines 148-161: the attempt raised; msg is what the last attempt reports
OcrAttemptFails(msg) ==
    IF o_attempt = MAX_RETRIES
    THEN o_ret' = ErrorDict(msg) /\ o_pc' = "done" /\ o_attempt' = o_attempt
    ELSE o_ret' = NoneVal /\ o_pc' = "attempt" /\ o_attempt' = o_attempt + 1

\* one pass of the loop of line 117
OcrAttempt ==
    /\ o_pc = "attempt"
    /\ o_calls' = o_calls + 1
    /\ \/ /\ o_log' = Append(o_log, ApiError)
          /\ OcrAttemptFails("api error")
       \/ \E raw \in Responses :
             /\ o_log' = Append(o_log, raw)
             /\ IF raw.text = "none"
                THEN OcrAttemptFails("'NoneType' object has no attribute 'strip'")
                ELSE LET parsed == _parse(raw)
                     IN  IF parsed = Raise("JSONDecodeError")
                         THEN OcrAttemptFails("JSON parse failed after all retries")
                         ELSE /\ o_ret' = parsed                     \* line 146
                              /\ o_pc' = "done" /\ o_attempt' = o_attempt
    /\ UNCHANGED exceptOcr

NextOcr == OcrCall \/ OcrAttempt

SpecOcr == InitOcr /\ [][NextOcr]_vars

\* the attempt met an API exception or a response that does not parse
AttemptFailed(entry) ==
    entry = ApiError \/ entry.text \in {"none", "null", "garbage"}

\* C18: extract_japanese always returns a dict that has the key
\* "japanese_found", whatever each of its at most MAX_RETRIES attempts meets
\* (a parsed response, a JSON parse error, an API exception); when every
\* attempt fails the dict has japanese_found False and an "error" key; and no
\* API call follows the first response that parses.
C18_AlwaysJapaneseFound ==
    /\ o_calls <= MAX_RETRIES
    /\ o_calls = Len(o_log)
    /\ \A k \in 1..(Len(o_log) - 1) : AttemptFailed(o_log[k])
    /\ o_pc = "done" =>
          /\ o_ret.py = "dict" /\ "japanese_found" \in o_ret.keys
          /\ (\A k \in 1..Len(o_log) : AttemptFailed(o_log[k]))
                => (o_ret.japanese_found = FALSE /\ "error" \in o_ret.keys)

-----------------------------------------------------------------------------
(* process_pdf and process_pdf_accurate (src/app/processor.py) *)

\* the image of page i as rasterized, and the copy replace_text returns
PageImage(i) == [page |-> i, modified |-> FALSE]

ModifiedImage(i) == [page |-> i, modified |-> TRUE]

\* f"{pdf_path.stem}_page_{i:03d}.png"
FileName(i) == <<"stem", "_page_", i, ".png">>

\* pdf_to_images: the pages in order, or the exception it raises
Rasterized(n) == [tag |-> "images", images |-> [i \in 1..n |-> PageImage(i)]]

Rasterizations ==
    {Rasterized(n) : n \in 0..MaxPages}
        \cup {Raise("FileNotFoundError"), Raise("RuntimeError")}

\* what extract_japanese can return for a page
OcrResults ==
    JsonValues \cup {ErrorDict("JSON parse failed after all retries"),
                     ErrorDict("api error")}

\* dict.get(key, default)
DictGet(d, key, default) ==
    IF key \in d.keys
    THEN CASE key = "japanese_found" -> d.japanese_found
           [] key = "extractions" -> d.extractions
           [] key = "error" -> d.error
    ELSE default

PageEntry(i, found, page_extractions, stats, error) ==
    [page_number |-> i, japanese_found |-> found, extractions |-> page_extractions,
     replacement_stats |-> stats, error |-> error]

NoStats == [successful |-> -1, failed |-> -1]

Stats(s, f) == [successful |-> s, failed |-> f]

InitPdf ==
    /\ AllIdleBut("Pdf")
    /\ p_accurate \in BOOLEAN
    /\ p_image_replacer \in BOOLEAN
    /\ p_images = NoneVal
    /\ p_i = 0
    /\ p_pages_results = <<>>
    /\ p_modified_images = <<>>
    /\ p_japanese_page_count = 0
    /\ p_ret = NoneVal
    /\ p_pc = "call"

\* lines 52-68 and 168-184: the PDF is rasterized
PdfCall ==
    /\ p_pc = "call"
    /\ \E r \in Rasterizations :
          /\ p_images' = r
          /\ IF r.tag = "raise"
             THEN /\ p_ret' = [tag |-> "ret",
                               data |-> [keys |-> {"file", "error", "pages"},
                                         pages |-> <<>>],
                               images |-> <<>>]
                  /\ p_pc' = "done"
             ELSE p_ret' = NoneVal /\ p_pc' = "loop"
    /\ p_i' = 0
    /\ UNCHANGED <<p_accurate, p_image_replacer, p_pages_results, p_modified_images,
                   p_japanese_page_count>>
    /\ UNCHANGED exceptPdf

\* the page escapes with exception e
PdfPageRaises(e) ==
    /\ p_ret' = Raise(e)
    /\ p_pc' = "raised"
    /\ UNCHANGED <<p_pages_results, p_modified_images, p_japanese_page_count>>

\* lines 86-110 and 203-234: a page with n extractions; the image saved is
\* replace_text's copy when a replacer is supplied, the page image otherwise
PdfPageWithJapanese(i, n) ==
    /\ p_japanese_page_count' = p_japanese_page_count + 1
    /\ IF p_image_replacer
       THEN \E s \in 0..n :
               /\ p_modified_images' =
                      Append(p_modified_images, <<ModifiedImage(i), FileName(i)>>)
               /\ p_pages_results' =
                      Append(p_pages_results,
                             PageEntry(i, TRUE, ListOf(n), Stats(s, n - s), ""))
       ELSE /\ p_modified_images' =
                   Append(p_modified_images, <<PageImage(i), FileName(i)>>)
            /\ p_pages_results' =
                   Append(p_pages_results, PageEntry(i, TRUE, ListOf(n), NoStats, ""))
    /\ p_ret' = NoneVal
    /\ p_pc' = "loop"

\* lines 112-122 and 236-240: a page without Japanese
PdfPageWithout(i, error) ==
    /\ p_modified_images' = Append(p_modified_images, <<PageImage(i), FileName(i)>>)
    /\ p_pages_results' = Append(p_pages_results, PageEntry(i, FALSE, ListOf(0), NoStats, error))
    /\ p_ret' = NoneVal
    /\ p_pc' = "loop"
    /\ UNCHANGED p_japanese_page_count

\* process_pdf, lines 70-124: one page
OcrPage(i) ==
    \E result \in OcrResults :
        IF result.py # "dict"
        THEN PdfPageRaises("AttributeError")        \* line 78: result.get
        ELSE IF DictGet(result, "japanese_found", FALSE)
        THEN LET page_extractions == DictGet(result, "extractions", ListOf(0))
             IN  IF page_extractions.k # "list"
                 THEN PdfPageRaises("TypeError")     \* line 90: len(None)
                 ELSE PdfPageWithJapanese(i, page_extractions.n)
        ELSE PdfPageWithout(i, DictGet(result, "error", ""))

\* process_pdf_accurate, lines 186-242: one page; detect_text found n blocks
\* and translate_batch returned n translations for them
AccuratePage(i) ==
    \E n \in 0..MaxExtractions :
        IF n > 0
        THEN PdfPageWithJapanese(i, n)
        ELSE PdfPageWithout(i, "")

PdfPage ==
    /\ p_pc = "loop"
    /\ p_i < Len(p_images.images)
    /\ p_i' = p_i + 1
    /\ IF p_accurate THEN AccuratePage(p_i + 1) ELSE OcrPage(p_i + 1)
    /\ UNCHANGED <<p_accurate, p_image_replacer, p_images>>
    /\ UNCHANGED exceptPdf

\* lines 126-134 and 244-255
PdfReturn ==
    /\ p_pc = "loop"
    /\ p_i = Len(p_images.images)
    /\ p_ret' = [tag |-> "ret",
                 data |-> [keys |-> {"file", "total_pages", "pages_with_japanese", "pages"},
                           pages |-> p_pages_results],
                 images |-> p_modified_images]
    /\ p_pc' = "done"
    /\ UNCHANGED <<p_accurate, p_image_replacer, p_images, p_i, p_pages_results,
                   p_modified_images, p_japanese_page_count>>
    /\ UNCHANGED exceptPdf

NextPdf == PdfCall \/ PdfPage \/ PdfReturn

SpecPdf == InitPdf /\ [][NextPdf]_vars

\* C19: for a PDF that rasterizes into n pages, process_pdf and
\* process_pdf_accurate each return exactly n (image, filename) entries and n
\* page entries, in page order with page_number 1..n, whichever pages hold
\* Japanese, with or without a replacer, whatever OCR returned; when
\* rasterization fails they return an error dict with an empty pages list and
\* no images.
C19_OneEntryPerPage ==
    /\ p_pc # "raised"
    /\ (p_pc = "done" /\ p_images.tag = "images") =>
          LET n == Len(p_images.images)
          IN  /\ Len(p_ret.images) = n
              /\ Len(p_ret.data.pages) = n
              /\ \A i \in 1..n :
                    /\ p_ret.data.pages[i].page_number = i
                    /\ p_ret.images[i][1].page = i
                    /\ p_ret.images[i][2] = FileName(i)
    /\ (p_pc = "done" /\ p_images.tag = "raise") =>
          /\ "error" \in p_ret.data.keys
          /\ p_ret.data.pages = <<>>
          /\ p_ret.images = <<>>

-----------------------------------------------------------------------------
(* The legacy Translator.translate (src/src/translator.py) *)

Whitespace == {" ", "\t", "\n"}

Characters == Whitespace \cup {"ka"}

RECURSIVE LStrip(_)
LStrip(s) == IF s # <<>> /\ Head(s) \in Whitespace THEN LStrip(Tail(s)) ELSE s

RECURSIVE RStrip(_)
RStrip(s) ==
    IF s # <<>> /\ s[Len(s)] \in Whitespace THEN RStrip(SubSeq(s, 1, Len(s) - 1)) ELSE s

\* str.strip()
Strip(s) == RStrip(LStrip(s))

\* line 28 mutated: only the empty string is refused
IsBlank_only_empty(s) == s = <<>>

\* line 28: not japanese_text or not japanese_text.strip()
IsBlank(s) == s = <<>> \/ Strip(s) = <<>>

TranslateResult(translation, success, error) ==
    [translation |-> translation, success |-> success, error |-> error]

\* what the API call does: it raises, or answers with some content
Answers == {<<" ", "H", "i">>, <<" ">>}

RECURSIVE StringsUpTo(_)
StringsUpTo(n) ==
    IF n = 0
    THEN {<<>>}
    ELSE LET shorter == StringsUpTo(n - 1)
         IN  shorter \cup {Append(s, c) : s \in shorter, c \in Characters}

InitLegacy ==
    /\ AllIdleBut("Legacy")
    /\ l_text \in StringsUpTo(MaxTextLen)
    /\ l_calls = 0
    /\ l_ret = NoneVal
    /\ l_pc = "call"

\* Translator.translate, lines 26-80
Translate ==
    /\ l_pc = "call"
    /\ IF IsBlank(l_text)
       THEN /\ l_ret' = TranslateResult(<<>>, FALSE, "Empty text provided")
            /\ l_calls' = l_calls
       ELSE /\ l_calls' = l_calls + 1
            /\ \/ l_ret' = TranslateResult(<<>>, FALSE, "Translation failed")
               \/ \E content \in Answers :
                     l_ret' = TranslateResult(Strip(content), TRUE, "")
    /\ l_pc' = "done"
    /\ UNCHANGED l_text
    /\ UNCHANGED exceptLegacy

NextLegacy == Translate

SpecLegacy == InitLegacy /\ [][NextLegacy]_vars

\* the text is empty or made of whitespace only
WhitespaceOnly(s) == \A k \in 1..Len(s) : s[k] \in Whitespace

\* C20: the legacy Translator.translate returns success False with an empty
\* translation for every empty or whitespace-only input, and issues no API
\* call for it.
C20_BlankInputRefused ==
    (l_pc = "done" /\ WhitespaceOnly(l_text))
        => /\ l_ret.success = FALSE
           /\ l_ret.translation = <<>>
           /\ l_calls = 0

\* a text of a space, a tab and a newline was refused without a call
C20_Witness ==
    /\ l_pc = "done" /\ l_text = <<" ", "\t", "\n">>
    /\ l_ret = TranslateResult(<<>>, FALSE, "Empty text provided")
    /\ l_calls = 0

-----------------------------------------------------------------------------
(* SpecExpand: ImageReplacer._expand_bbox on rectangles in and around small
   images, with the percentages and minimum paddings a caller can pass *)

\* pct: none, RENDER_BOX_PADDING_PCT, one and a half
ExpandPcts == {<<0, 1>>, RENDER_BOX_PADDING_PCT, <<3, 2>>}

InitExpand ==
    /\ AllIdleBut("Expand")
    /\ e_img \in (1..MaxSide) \X (1..MaxSide)
    /\ e_bbox \in (-1..(e_img[1] + 1)) \X (-1..(e_img[2] + 1))
                  \X (-1..(e_img[1] + 1)) \X (-1..(e_img[2] + 1))
    /\ e_pct \in ExpandPcts
    /\ e_min_pad \in -1..MaxMinPad
    /\ e_out = <<>>
    /\ e_pc = "call"

\* ImageReplacer._expand_bbox, lines 223-248
Expand ==
    /\ e_pc = "call"
    /\ e_out' = _expand_bbox(e_bbox, e_img[1], e_img[2], e_pct, e_min_pad)
    /\ e_pc' = "done"
    /\ UNCHANGED <<e_bbox, e_img, e_pct, e_min_pad>>
    /\ UNCHANGED exceptExpand

NextExpand == Expand

SpecExpand == InitExpand /\ [][NextExpand]_vars

\* both corners of rectangle r lie in the image of the given size
CornersInImage(r, size) ==
    /\ 0 <= r[1] /\ r[1] <= size[1] /\ 0 <= r[3] /\ r[3] <= size[1]
    /\ 0 <= r[2] /\ r[2] <= size[2] /\ 0 <= r[4] /\ r[4] <= size[2]

\* rectangle outer reaches at least as far as rectangle r on every side
Contains(outer, r) ==
    /\ outer[1] <= r[1] /\ outer[2] <= r[2]
    /\ r[3] <= outer[3] /\ r[4] <= outer[4]

\* C21: for a rectangle inside the image and min_pad >= 0, the rectangle
\* _expand_bbox returns contains the rectangle it was given and lies in the
\* image
C21_ExpandedContainsInput ==
    (e_pc = "done" /\ CornersInImage(e_bbox, e_img) /\ e_min_pad >= 0)
        => Contains(e_out, e_bbox) /\ CornersInImage(e_out, e_img)

\* a rectangle was grown on the left and clamped at the right edge
C21_Witness ==
    /\ e_pc = "done" /\ CornersInImage(e_bbox, e_img) /\ e_min_pad >= 0
    /\ e_out[1] < e_bbox[1]
    /\ e_out[3] = e_img[1] /\ e_bbox[3] + e_min_pad > e_img[1]

-----------------------------------------------------------------------------
(* SpecRender: ImageReplacer._render_text called on its own, on a page that
   nothing was painted on yet *)

RenderTexts == {HelloThere, StairsText, TailText, LongWord, Blank, NullText}

\* a wide box, a narrow one, a low one, one of no width, one of no height
RenderBoxes ==
    {<<10, 10, 250, 110>>, <<10, 10, 40, 110>>, <<20, 20, 120, 44>>,
     <<10, 10, 10, 20>>, <<10, 30, 60, 30>>}

RenderFaults == FaultKinds \ {"erase"}

InitRender ==
    /\ AllIdleBut("Render")
    /\ r_text \in RenderTexts
    /\ r_bbox \in RenderBoxes
    /\ r_styling \in {"dict", "null"}
    /\ r_fault \in RenderFaults
    /\ r_image = NewRaster(<<300, 200>>)
    /\ r_out = NoneVal
    /\ r_pc = "call"

\* ImageReplacer._render_text, lines 365-470
RenderText ==
    /\ r_pc = "call"
    /\ r_out' = _render_text(r_image, r_text, r_bbox, r_styling, r_fault)
    /\ r_pc' = "done"
    /\ UNCHANGED <<r_text, r_bbox, r_styling, r_fault, r_image>>
    /\ UNCHANGED exceptRender

NextRender == RenderText

SpecRender == InitRender /\ [][NextRender]_vars

\* _render_text got as far as its draw loop
Laid == r_pc = "done" /\ r_out.locals.tag = "locals"

\* the lines drawn by draw.text: x_pos, current_y, line_width, line_height
DrawnLines ==
    {r_out.raster.ops[k].r : k \in 1..Len(r_out.raster.ops)}

\* C23 as stated: every drawn line starts at or right of x1_in and ends at or
\* left of x2_in, whatever its width, lines wider than the box included.
C23_Original ==
    Laid => \A l \in DrawnLines :
               r_out.locals.x1_in <= l[1] /\ l[3] <= r_out.locals.x2_in

\* C23 amended: no drawn line ends right of x2_in; a line that is not wider
\* than the box also starts at or right of x1_in; a line that is wider than the
\* box ends exactly at x2_in and starts left of x1_in.
C23_LineHeldAtRightEdge ==
    Laid => \A l \in DrawnLines :
               /\ l[3] <= r_out.locals.x2_in
               /\ l[3] - l[1] <= r_out.locals.inner_width => r_out.locals.x1_in <= l[1]
               /\ l[3] - l[1] > r_out.locals.inner_width
                     => l[3] = r_out.locals.x2_in /\ l[1] < r_out.locals.x1_in

\* a single word wider than its box was drawn
C23_Witness ==
    /\ Laid /\ r_out.res = "True" /\ r_text = LongWord
    /\ \E l \in DrawnLines : l[3] - l[1] > r_out.locals.inner_width

\* C24: the block is centred with y_start = y1 + (box_height - total_height)/2
\* for the total_height of _fit_text, and the pen advances by
\* line_height * LINE_SPACING between lines and line_height after the last, so
\* that the distance advanced over all lines equals that total_height.
C24_AdvanceEqualsTotalHeight ==
    (Laid /\ r_out.res = "True")
        => /\ r_out.locals.y_start
                 = r_out.locals.y1_in
                   + (r_out.locals.inner_height - r_out.locals.total_text_height) \div 2
           /\ r_out.locals.current_y - r_out.locals.y_start
                 = r_out.locals.total_text_height

-----------------------------------------------------------------------------
(* SpecErase: ImageReplacer._erase_text_simple called once and then once more
   with the same rectangle, on a small page that is blank or carries ink *)

\* the page before the call: untouched, or with a line of text on it
ErasePages(size) ==
    {NewRaster(size), Paint(NewRaster(size), TextOp(0, 0, size[1], 1))}

InitErase ==
    /\ AllIdleBut("Erase")
    /\ \E size \in (1..MaxSide) \X (1..MaxSide) :
          /\ er_before \in ErasePages(size)
          /\ er_bbox \in (0..size[1]) \X (0..size[2]) \X (0..size[1]) \X (0..size[2])
    /\ er_fault \in {"none", "erase"}
    /\ er_once = <<>>
    /\ er_image = er_before
    /\ er_pc = "call"

\* ImageReplacer._erase_text_simple, lines 250-260
EraseOnce ==
    /\ er_pc = "call"
    /\ LET erased == _erase_text_simple(er_image, er_bbox, er_fault)
       IN  /\ er_image' = erased.raster
           /\ er_once' = IF erased.raised THEN er_once ELSE erased.raster
           /\ er_pc' = IF erased.raised THEN "raised" ELSE "erased"
    /\ UNCHANGED <<er_bbox, er_fault, er_before>>
    /\ UNCHANGED exceptErase

\* the same call again, on the raster the first call left
EraseAgain ==
    /\ er_pc = "erased"
    /\ LET erased == _erase_text_simple(er_image, er_bbox, er_fault)
       IN  /\ er_image' = erased.raster
           /\ er_pc' = IF erased.raised THEN "raised" ELSE "erased_twice"
    /\ UNCHANGED <<er_bbox, er_fault, er_before, er_once>>
    /\ UNCHANGED exceptErase

NextErase == EraseOnce \/ EraseAgain

SpecErase == InitErase /\ [][NextErase]_vars

\* the pixels of a raster
PixelsIn(raster) == (0..(raster.size[1] - 1)) \X (0..(raster.size[2] - 1))

\* rasters a and b show the same colour at every pixel
SamePixels(a, b) ==
    /\ a.size = b.size
    /\ \A p \in PixelsIn(a) : PixelAt(a, p[1], p[2]) = PixelAt(b, p[1], p[2])

\* the rectangle has no width or no height
Degenerate(r) == r[3] <= r[1] \/ r[4] <= r[2]

\* C25: for a rectangle with x2 <= x1 or y2 <= y1 _erase_text_simple does
\* not fail and leaves the raster as it was; for any other rectangle it changes no
\* pixel outside the rectangle.
C25_EraseStaysInRectangle ==
    /\ (er_pc # "idle" /\ Degenerate(er_bbox))
          => er_pc # "raised" /\ er_image = er_before
    /\ (er_pc \in {"erased", "erased_twice"} /\ ~Degenerate(er_bbox))
          => \A p \in PixelsIn(er_image) :
                Covers(FillOp(er_bbox, BACKGROUND_FILL_COLOR), p[1], p[2])
                \/ PixelAt(er_image, p[1], p[2]) = PixelAt(er_before, p[1], p[2])

\* a rectangle of no width was erased while draw.rectangle would have raised
C25_Witness ==
    /\ er_pc = "erased" /\ er_fault = "erase"
    /\ er_bbox[3] = er_bbox[1] /\ er_bbox[4] > er_bbox[2]
    /\ er_image = er_before /\ Len(er_before.ops) = 1

\* C26: erasing the same rectangle twice gives the same pixels as erasing
\* it once.
C26_EraseIdempotent ==
    er_pc = "erased_twice" => SamePixels(er_image, er_once)

\* a rectangle covering ink was erased twice
C26_Witness ==
    /\ er_pc = "erased_twice" /\ ~Degenerate(er_bbox)
    /\ Len(er_before.ops) = 1 /\ er_bbox[2] = 0
    /\ PixelAt(er_before, er_bbox[1], 0) = <<0, 0, 0>>
    /\ PixelAt(er_once, er_bbox[1], 0) = BACKGROUND_FILL_COLOR
    /\ PixelAt(er_image, er_bbox[1], 0) = BACKGROUND_FILL_COLOR

-----------------------------------------------------------------------------
(* ImageReplacer._detect_bubble_region *)

\* Pages for the segmenter carry one grey level per cell of CellPx x CellPx
\* pixels; a cell is twice BUBBLE_PADDING wide, so that a region one cell high
\* collapses when it is shrunk.
CellPx == 2 * BUBBLE_PADDING

\* crop.convert("L") at pixel (x, y) of the page
GrayAt(page, x, y) == page.gray[<<x \div CellPx, y \div CellPx>>]

\* lines 289-290: the pixel of `binary` at (x, y) of the crop
BinaryAt(page, crop_box, x, y) ==
    LET thresh == Max(0, Min(255, BUBBLE_DETECT_THRESHOLD))
    IN  IF GrayAt(page, crop_box[1] + x, crop_box[2] + y) >= thresh THEN 255 ELSE 0

\* (x, y) is a pixel of the crop; getpixel raises IndexError elsewhere
InCrop(crop_box, x, y) ==
    /\ 0 <= x /\ x < crop_box[3] - crop_box[1]
    /\ 0 <= y /\ y < crop_box[4] - crop_box[2]

\* lines 275-283
CropBox(page, text_bbox) ==
    LET w == text_bbox[3] - text_bbox[1]
        h == text_bbox[4] - text_bbox[2]
        pad == (Max(w, h) * 12) \div 10
    IN  <<Max(0, text_bbox[1] - pad), Max(0, text_bbox[2] - pad),
          Min(page.size[1], text_bbox[3] + pad), Min(page.size[2], text_bbox[4] + pad)>>

\* lines 299-300
ProbeOffsets ==
    << <<-5, 0>>, <<5, 0>>, <<0, -5>>, <<0, 5>>, <<-8, -8>>, <<8, 8>>,
       <<-10, 0>>, <<10, 0>>, <<0, -10>>, <<0, 10>>, <<-3, -3>>, <<3, 3>> >>

SeedAt(x, y) == [tag |-> "seed", p |-> <<x, y>>]

\* lines 302-303 mutated: the probe is not clamped into the crop
RECURSIVE ProbeLoop_unclamped(_, _, _, _)
ProbeLoop_unclamped(page, crop_box, seed, k) ==
    IF k > Len(ProbeOffsets)
    THEN NoneVal
    ELSE LET sx == seed[1] + ProbeOffsets[k][1]
             sy == seed[2] + ProbeOffsets[k][2]
         IN  IF ~InCrop(crop_box, sx, sy)
             THEN Raise("IndexError")
             ELSE IF BinaryAt(page, crop_box, sx, sy) = 255
             THEN SeedAt(sx, sy)
             ELSE ProbeLoop_unclamped(page, crop_box, seed, k + 1)

\* lines 301-312: the probes from the k-th on
RECURSIVE ProbeLoop(_, _, _, _)
ProbeLoop(page, crop_box, seed, k) ==
    IF k > Len(ProbeOffsets)
    THEN NoneVal
    ELSE LET sx == Max(0, Min(crop_box[3] - crop_box[1] - 1, seed[1] + ProbeOffsets[k][1]))
             sy == Max(0, Min(crop_box[4] - crop_box[2] - 1, seed[2] + ProbeOffsets[k][2]))
         IN  IF ~InCrop(crop_box, sx, sy)
             THEN Raise("IndexError")
             ELSE IF BinaryAt(page, crop_box, sx, sy) = 255
             THEN SeedAt(sx, sy)
             ELSE ProbeLoop(page, crop_box, seed, k + 1)

\* lines 292-312: the seed the flood fill starts from, None when no probe is
\* light, or the exception of getpixel
SeedOf(page, crop_box, text_bbox) ==
    LET w == text_bbox[3] - text_bbox[1]
        h == text_bbox[4] - text_bbox[2]
        seed_x == Max(0, Min(crop_box[3] - crop_box[1] - 1,
                             text_bbox[1] - crop_box[1] + w \div 2))
        seed_y == Max(0, Min(crop_box[4] - crop_box[2] - 1,
                             text_bbox[2] - crop_box[2] + h \div 2))
    IN  IF ~InCrop(crop_box, seed_x, seed_y)
        THEN Raise("IndexError")
        ELSE IF BinaryAt(page, crop_box, seed_x, seed_y) = 0
        THEN ProbeLoop(page, crop_box, <<seed_x, seed_y>>, 1)
        ELSE SeedAt(seed_x, seed_y)

\* the cells of the page that have pixels in the crop
CropCells(page, crop_box) ==
    {c \in DOMAIN page.gray :
        /\ c[1] * CellPx < crop_box[3] /\ (c[1] + 1) * CellPx > crop_box[1]
        /\ c[2] * CellPx < crop_box[4] /\ (c[2] + 1) * CellPx > crop_box[2]}

\* cells that share an edge
Adjacent(c, d) ==
    \/ c[2] = d[2] /\ (c[1] = d[1] + 1 \/ d[1] = c[1] + 1)
    \/ c[1] = d[1] /\ (c[2] = d[2] + 1 \/ d[2] = c[2] + 1)

RECURSIVE Grow(_, _, _)
Grow(filled, frontier, light) ==
    IF frontier = {}
    THEN filled
    ELSE LET reached == {c \in light \ filled : \E f \in frontier : Adjacent(c, f)}
         IN  Grow(filled \cup reached, reached, light)

\* ImageDraw.floodfill(binary, (seed_x, seed_y), fill_value, thresh=0): the light
\* pixels of the crop joined to the seed by edges, as the cells they lie in
FloodFill(page, crop_box, seed) ==
    LET thresh == Max(0, Min(255, BUBBLE_DETECT_THRESHOLD))
        light == {c \in CropCells(page, crop_box) : page.gray[c] >= thresh}
        start == <<(crop_box[1] + seed[1]) \div CellPx, (crop_box[2] + seed[2]) \div CellPx>>
    IN  Grow({start}, {start}, light)

Least(S) == CHOOSE s \in S : \A t \in S : s <= t

\* mask.getbbox(): in crop coordinates, right and lower edge excluded; None for
\* an empty mask
MaskBBox(filled, crop_box) ==
    IF filled = {}
    THEN NoneVal
    ELSE Rect(<<Least({Max(c[1] * CellPx, crop_box[1]) : c \in filled}) - crop_box[1],
                Least({Max(c[2] * CellPx, crop_box[2]) : c \in filled}) - crop_box[2],
                Largest({Min((c[1] + 1) * CellPx, crop_box[3]) : c \in filled}) - crop_box[1],
                Largest({Min((c[2] + 1) * CellPx, crop_box[4]) : c \in filled}) - crop_box[2]>>)

\* line 342 mutated: the shrunk box is not validated
StillHasArea_unchecked(m) == TRUE

\* line 342: the padded bubble still has area
StillHasArea(m) == ~(m[3] <= m[1] \/ m[4] <= m[2])

\* (bubble_bbox, bubble_mask, bubble_crop_box); the mask by its size
Bubble(bubble_bbox, mask_size, bubble_crop_box) ==
    [tag |-> "bubble", bubble_bbox |-> bubble_bbox, mask_size |-> mask_size,
     bubble_crop_box |-> bubble_crop_box]

\* the value returned, or the exception raised
_detect_bubble_region(page, text_bbox, fault) ==
    LET x1 == text_bbox[1]
        y1 == text_bbox[2]
        w == text_bbox[3] - x1
        h == text_bbox[4] - y1
        crop_box == CropBox(page, text_bbox)
        crop_width == crop_box[3] - crop_box[1]
        crop_height == crop_box[4] - crop_box[2]
        seed == SeedOf(page, crop_box, text_bbox)
        bbox == MaskBBox(FloodFill(page, crop_box, seed.p), crop_box)
        bubble_area == (bbox.r[3] - bbox.r[1]) * (bbox.r[4] - bbox.r[2])
        pad_in == Max(0, BUBBLE_PADDING)
        mx1 == Max(0, bbox.r[1] + pad_in)
        my1 == Max(0, bbox.r[2] + pad_in)
        mx2 == Min(crop_width, bbox.r[3] - pad_in)
        my2 == Min(crop_height, bbox.r[4] - pad_in)
        moved == <<crop_box[1] + mx1, crop_box[2] + my1, crop_box[1] + mx2, crop_box[2] + my2>>
    IN  IF w <= 0 \/ h <= 0
        THEN NoneVal
        ELSE IF seed.tag # "seed"
        THEN seed
        ELSE IF fault = "floodfill"
        THEN NoneVal
        ELSE IF bbox.tag = "None"
        THEN NoneVal
        ELSE IF bubble_area < BUBBLE_MIN_AREA
        THEN NoneVal
        ELSE IF ~StillHasArea(<<mx1, my1, mx2, my2>>)
        THEN NoneVal
        ELSE Bubble(moved, <<mx2 - mx1, my2 - my1>>, moved)

-----------------------------------------------------------------------------
(* SpecDetect: _detect_bubble_region on pages of 14 x 6 cells and on text
   rectangles inside the page, as _normalize_to_pixels delivers them *)

PageCells == (0..13) \X (0..5)

Block(cx1, cy1, cx2, cy2) == (cx1..cx2) \X (cy1..cy2)

\* a page that has grey level `level` on the cells of `region` and is black elsewhere
Page(region, level) ==
    [size |-> <<14 * CellPx, 6 * CellPx>>,
     gray |-> [c \in PageCells |-> IF c \in region THEN level ELSE 0]]

\* dark, white and almost-light pages; a bubble, white or just at the
\* threshold, empty or with lettering in it; a light band one cell high; a
\* light speck; light that only the later probes reach; far-away light
Pages ==
    {Page({}, 255), Page(PageCells, 255), Page(PageCells, BUBBLE_DETECT_THRESHOLD - 1),
     Page(Block(2, 1, 8, 4), 255), Page(Block(2, 1, 8, 4), BUBBLE_DETECT_THRESHOLD),
     Page(Block(2, 1, 8, 4) \ Block(4, 2, 7, 3), 255),
     Page(Block(0, 2, 13, 2), 255), Page(Block(5, 2, 5, 2), 255),
     Page(Block(2, 0, 8, 1), 255), Page(Block(12, 0, 13, 5), 255)}

TextRects ==
    {<<40, 16, 72, 32>>, <<36, 18, 44, 26>>, <<44, 22, 60, 30>>, <<8, 10, 40, 14>>,
     <<0, 0, 12, 8>>, <<100, 40, 112, 48>>, <<10, 10, 10, 20>>, <<10, 30, 60, 30>>}

InitDetect ==
    /\ AllIdleBut("Detect")
    /\ d_img \in Pages
    /\ d_text_bbox \in TextRects
    /\ d_fault \in {"none", "floodfill"}
    /\ d_crop_box = <<>>
    /\ d_seed = NoneVal
    /\ d_out = NoneVal
    /\ d_pc = "call"

\* ImageReplacer._detect_bubble_region, lines 262-363
Detect ==
    /\ d_pc = "call"
    /\ d_out' = _detect_bubble_region(d_img, d_text_bbox, d_fault)
    /\ IF d_text_bbox[3] - d_text_bbox[1] <= 0 \/ d_text_bbox[4] - d_text_bbox[2] <= 0
       THEN UNCHANGED <<d_crop_box, d_seed>>
       ELSE /\ d_crop_box' = CropBox(d_img, d_text_bbox)
            /\ d_seed' = SeedOf(d_img, d_crop_box', d_text_bbox)
    /\ d_pc' = "done"
    /\ UNCHANGED <<d_img, d_text_bbox, d_fault>>
    /\ UNCHANGED exceptDetect

NextDetect == Detect

SpecDetect == InitDetect /\ [][NextDetect]_vars

-----------------------------------------------------------------------------
(* Claims about _detect_bubble_region (checked under SpecDetect) *)

\* the text rectangle has a width and a height
HasArea(r) == r[3] > r[1] /\ r[4] > r[2]

\* the pixels tried as the seed, in order and in crop coordinates: the centre of
\* the text rectangle, then the centre moved by each offset and clamped
Tried ==
    LET cx == d_text_bbox[1] - d_crop_box[1] + (d_text_bbox[3] - d_text_bbox[1]) \div 2
        cy == d_text_bbox[2] - d_crop_box[2] + (d_text_bbox[4] - d_text_bbox[2]) \div 2
        right == d_crop_box[3] - d_crop_box[1] - 1
        bottom == d_crop_box[4] - d_crop_box[2] - 1
    IN  << <<cx, cy>> >>
        \o [k \in 1..Len(ProbeOffsets) |->
               <<Max(0, Min(right, cx + ProbeOffsets[k][1])),
                 Max(0, Min(bottom, cy + ProbeOffsets[k][2]))>>]

\* the pixel at p of the crop is at or above the threshold
Candidate(p) ==
    GrayAt(d_img, d_crop_box[1] + p[1], d_crop_box[2] + p[2]) >= BUBBLE_DETECT_THRESHOLD

C28_BubbleResultWellFormed ==
    d_pc = "done"
        => /\ d_out.tag \in {"bubble", "None"}
           /\ ~HasArea(d_text_bbox) => d_out = NoneVal
           /\ d_out.tag = "bubble"
                 => LET b == d_out.bubble_bbox
                    IN  /\ (b[3] - b[1] + 2 * BUBBLE_PADDING)
                              * (b[4] - b[2] + 2 * BUBBLE_PADDING) >= BUBBLE_MIN_AREA
                        /\ b[3] > b[1] /\ b[4] > b[2]
                        /\ d_crop_box[1] <= b[1] /\ b[3] <= d_crop_box[3]
                        /\ d_crop_box[2] <= b[2] /\ b[4] <= d_crop_box[4]
                        /\ 0 <= b[1] /\ b[3] <= d_img.size[1]
                        /\ 0 <= b[2] /\ b[4] <= d_img.size[2]
                        /\ d_out.mask_size = <<b[3] - b[1], b[4] - b[2]>>
                        /\ d_out.bubble_crop_box = b

\* a bubble was found from a probe, the centre of the text being dark
C28_Witness ==
    /\ d_pc = "done" /\ d_out.tag = "bubble"
    /\ ~Candidate(Tried[1])
    /\ d_out.mask_size[1] > 0 /\ d_out.mask_size[2] > 0

====
